---- MODULE Spec2Model ----
(***************************************************************************)
(* Expense reimbursement workflow: the permission policy, the single-item  *)
(* status handlers (approve, reject, pay) and the bulk approval handler,   *)
(* run as concurrent requests against one expense table.                   *)
(*                                                                         *)
(* A handler is split where it awaits the store: the step up to and        *)
(* including its read (findUnique / findMany) and the checks made on the   *)
(* read value, and the step of its write (update / updateMany).  The       *)
(* checks before the read touch no shared state, so they are taken in the  *)
(* same step as the read.                                                  *)
(***************************************************************************)
EXTENDS Integers, Sequences, FiniteSets, TLC

VARIABLES
    expenses,   \* the expense table: id -> row (exists = FALSE: no such row)
    requests,   \* client -> the locals and the response of its current request
    now,        \* the clock read by new Date()
    policy,     \* the permission-policy call under evaluation (PolicySpec)
    summaries,  \* the summary table: the rows in the order they were created
    isApproved  \* the user table's isApproved column: user -> flag

vars == <<expenses, requests, now, policy, summaries, isApproved>>

----------------------------------------------------------------------------
(* Bounds of the model *)

NumExpenses == 2    \* rows the expense table can hold
NumRaced == 1       \* expenses the concurrent handlers of Spec work on
MaxTime == 1        \* last reading of the clock
TicksPerDay == 2    \* clock readings per day; time 0 is a Sunday, 00:00
MaxSummaries == 2   \* rows the summary table can hold
MaxCents == 100     \* largest total, in cents, the summary table is given

ExpenseIds == 1..NumExpenses
RaceIds == 1..NumRaced
Times == 0..MaxTime

(* Nullable values: None is null/undefined, Some(x) a present value. *)
None == << >>
Some(x) == <<x>>
Val(o) == o[1]

----------------------------------------------------------------------------
(* Roles, users and statuses *)

MANAGER == "MANAGER"
EMPLOYEE == "EMPLOYEE"
Roles == {EMPLOYEE, MANAGER}

Managers == {"m1", "m2"}
Employees == {"e1"}
Users == Managers \cup Employees
(* A client is a signed-in user or the visitor who has no session; each has
   at most one request in flight. *)
Anonymous == "anonymous"
Clients == Users \cup {Anonymous}
RoleOf(u) == IF u \in Managers THEN MANAGER ELSE EMPLOYEE

PENDING == "PENDING"
APPROVED == "APPROVED"
REJECTED == "REJECTED"
REIMBURSED == "REIMBURSED"
ExpenseStatus == {PENDING, APPROVED, REJECTED, REIMBURSED}

----------------------------------------------------------------------------
(* Permission policy (lib/permissions.ts) *)

isManager_AnyRole(role) == role \in Roles

isManager(role) == role = MANAGER

isEmployee(role) == role = EMPLOYEE

canCreate(role) == role = EMPLOYEE \/ role = MANAGER

canViewOwn(role) == role = EMPLOYEE \/ role = MANAGER

canViewAll(role) == role = MANAGER

canApprove(role) == role = MANAGER

canMarkPaid(role) == role = MANAGER

canEdit_ManagerToo(role, isOwner, status) ==
    (isOwner \/ role = MANAGER) /\ status = PENDING

canEdit(role, isOwner, status) == isOwner /\ status = PENDING

canDelete(role, isOwner, status) == isOwner /\ status = PENDING

StatusTransitions_PayFromPending ==
    [s \in ExpenseStatus |->
        CASE s = PENDING ->
                [allowedNextStatuses |-> {APPROVED, REJECTED, REIMBURSED},
                 requiredRole |-> Some(MANAGER)]
          [] s = APPROVED ->
                [allowedNextStatuses |-> {REIMBURSED},
                 requiredRole |-> Some(MANAGER)]
          [] s = REJECTED ->
                [allowedNextStatuses |-> {}, requiredRole |-> None]
          [] s = REIMBURSED ->
                [allowedNextStatuses |-> {}, requiredRole |-> None]]

(* The transition table; requiredRole is nullable. *)
StatusTransitions ==
    [s \in ExpenseStatus |->
        CASE s = PENDING ->
                [allowedNextStatuses |-> {APPROVED, REJECTED},
                 requiredRole |-> Some(MANAGER)]
          [] s = APPROVED ->
                [allowedNextStatuses |-> {REIMBURSED},
                 requiredRole |-> Some(MANAGER)]
          [] s = REJECTED ->
                [allowedNextStatuses |-> {}, requiredRole |-> None]
          [] s = REIMBURSED ->
                [allowedNextStatuses |-> {}, requiredRole |-> None]]

canTransitionTo_NoRoleCheck(currentStatus, newStatus, userRole) ==
    newStatus \in StatusTransitions[currentStatus].allowedNextStatuses

canTransitionTo_AnyTarget(currentStatus, newStatus, userRole) ==
    LET transition == StatusTransitions[currentStatus]
    IN  transition.requiredRole = None \/ userRole = Val(transition.requiredRole)

canTransitionTo(currentStatus, newStatus, userRole) ==
    LET transition == StatusTransitions[currentStatus]
    IN  IF newStatus \notin transition.allowedNextStatuses THEN FALSE
        ELSE IF transition.requiredRole # None
                /\ userRole # Val(transition.requiredRole) THEN FALSE
        ELSE TRUE

----------------------------------------------------------------------------
(* Request validation *)

MaxReasonLength == 500
MaxBulkItems_OneLess == 100 - 1
MaxBulkItems == 100

(* A CSRF token is the sequence of its character codes; the empty sequence
   stands for a missing cookie/header as well as for the empty string (both
   are falsy). *)
CsrfTokens == {<< >>, <<1>>, <<2>>, <<1, 2>>}
MatchingTokens == {<<1>>}

validateCsrfToken_LengthOnly(cookieToken, headerToken) ==
    IF cookieToken = << >> \/ headerToken = << >> THEN FALSE
    ELSE Len(cookieToken) = Len(headerToken)

validateCsrfToken(cookieToken, headerToken) ==
    IF cookieToken = << >> \/ headerToken = << >> THEN FALSE
    ELSE IF Len(cookieToken) # Len(headerToken) THEN FALSE
    ELSE \A i \in 1..Len(cookieToken) : cookieToken[i] = headerToken[i]

(* A rejection reason is modelled by its length; the stored rejectionReason
   is the reason that was sent. *)
ReasonInputs ==
    {None, Some(0), Some(MaxReasonLength), Some(MaxReasonLength + 1)}

rejectionSchema_NoMaximum(reason) ==
    reason # None /\ Val(reason) >= 1

rejectionSchema(reason) ==
    reason # None /\ Val(reason) >= 1 /\ Val(reason) <= MaxReasonLength

(* A paidDate string either parses to a time or does not. *)
ValidDate(t) == [valid |-> TRUE, t |-> t]
InvalidDate == [valid |-> FALSE, t |-> 0]

paymentSchema_AnyAmount(paidAmount, paidDate) ==
    paidDate # None => Val(paidDate).valid

paymentSchema(paidAmount, paidDate) ==
    /\ paidAmount # None => Val(paidAmount) > 0
    /\ paidDate # None => Val(paidDate).valid

----------------------------------------------------------------------------
(* State *)

NoExpense ==
    [exists |-> FALSE, userId |-> None, amount |-> None, status |-> PENDING,
     date |-> None, createdAt |-> None, approverId |-> None, approvalDate |-> None, rejectionReason |-> None,
     paidDate |-> None, paidAmount |-> None]

NoRequest ==
    [pc |-> "idle", op |-> "none", actor |-> None, id |-> None, ids |-> {},
     len |-> 0, reason |-> None, paidAmount |-> None, paidDate |-> None,
     amount |-> None, result |-> "none", listed |-> {}, approved |-> None,
     options |-> None, todo |-> {}, draft |-> None, returned |-> << >>,
     total |-> None, totalPages |-> None, cookieToken |-> << >>,
     headerToken |-> << >>]

NoQuery ==
    [fn |-> "none", current |-> PENDING, target |-> PENDING, role |-> EMPLOYEE,
     isOwner |-> FALSE, out |-> FALSE, date |-> None]

Init ==
    /\ expenses = [id \in ExpenseIds |-> NoExpense]
    /\ requests = [c \in Clients |-> NoRequest]
    /\ now = 0
    /\ policy = NoQuery
    /\ summaries = << >>
    /\ isApproved = [u \in Users |-> u \in Managers]

(* getServerSession: the signed-in user, or null. *)
Session(c) == IF c \in Users THEN Some(c) ELSE None

(* A client sends its next request once the previous one has been answered. *)
Free(c) == requests[c].pc \in {"idle", "done"}

Respond(c, req, result) ==
    requests' = [requests EXCEPT ![c] = [req EXCEPT !.pc = "done", !.result = result]]

Proceed(c, req) ==
    requests' = [requests EXCEPT ![c] = [req EXCEPT !.pc = "update"]]

(* The checks every state-changing manager route makes first: CSRF token,
   session, manager role. *)
ManagerGuard(cookieToken, headerToken, session) ==
    IF ~validateCsrfToken(cookieToken, headerToken) THEN "InvalidCsrf"
    ELSE IF session = None THEN "Unauthorized"
    ELSE IF ~isManager(RoleOf(Val(session))) THEN "Forbidden"
    ELSE "pass"

----------------------------------------------------------------------------
(* The clock *)

TickUntil(last) ==
    /\ now < last
    /\ now' = now + 1
    /\ UNCHANGED <<expenses, requests, policy, summaries, isApproved>>

Tick == TickUntil(MaxTime)

(* Time passes until one of the given clock readings. *)
Elapse(times) ==
    /\ \E t \in times : t > now /\ now' = t
    /\ UNCHANGED <<expenses, requests, policy, summaries, isApproved>>

(* POST /api/expenses: a signed-in user creates an expense; the row starts
   PENDING with no stamps, createdAt is the time of the insert.  An amount
   is the decimal literal parseFloat read, in thousandths; date is the day
   the owner says the expense was incurred, which cannot be in the future. *)
CreateExpense(c, in) ==
    /\ validateCsrfToken(in.cookieToken, in.headerToken)
    /\ Session(c) # None
    /\ in.amount > 0
    /\ in.date <= now
    /\ ~expenses[in.id].exists
    /\ expenses' = [expenses EXCEPT ![in.id] =
           [NoExpense EXCEPT !.exists = TRUE, !.userId = Session(c),
                             !.amount = Some(in.amount),
                             !.date = Some(in.date),
                             !.createdAt = Some(now)]]
    /\ UNCHANGED <<requests, now, policy, summaries, isApproved>>

(* POST /api/expenses with its response: the same handler as
   CreateExpense, answering the caller whichever check stops it. *)
PostExpense(c, in) ==
    LET session == Session(c)
        req == [NoRequest EXCEPT !.op = "createExpense", !.actor = session,
                                 !.cookieToken = in.cookieToken,
                                 !.headerToken = in.headerToken]
    IN  /\ Free(c)
        /\ UNCHANGED <<now, policy, summaries, isApproved>>
        /\ IF ~validateCsrfToken(in.cookieToken, in.headerToken)
           THEN UNCHANGED expenses /\ Respond(c, req, "InvalidCsrf")
           ELSE IF session = None
                THEN UNCHANGED expenses /\ Respond(c, req, "Unauthorized")
           ELSE IF ~(in.amount > 0)
                THEN UNCHANGED expenses /\ Respond(c, req, "InvalidAmount")
           ELSE IF in.date > now
                THEN UNCHANGED expenses /\ Respond(c, req, "InvalidDate")
           ELSE /\ ~expenses[in.id].exists
                /\ expenses' = [expenses EXCEPT ![in.id] =
                       [NoExpense EXCEPT !.exists = TRUE, !.userId = session,
                                         !.amount = Some(in.amount),
                                         !.date = Some(in.date),
                                         !.createdAt = Some(now)]]
                /\ Respond(c, [req EXCEPT !.id = Some(in.id)], "OK")

----------------------------------------------------------------------------
(* Store operations (prisma.expense) *)

Merge(row, data) ==
    [f \in DOMAIN row |-> IF f \in DOMAIN data THEN data[f] ELSE row[f]]

(* findUnique({where: {id}}): the row, or null. *)
findUnique(id) == IF expenses[id].exists THEN Some(expenses[id]) ELSE None

(* update({where: {id}, data}): overwrites the given columns of the row,
   whatever the row holds now. *)
update(id, data) == [expenses EXCEPT ![id] = Merge(@, data)]

(* findMany({where: {id: {in: ids}}, select: {id, status}}) *)
findMany_IgnoreExists(ids) ==
    {[id |-> id, status |-> expenses[id].status] : id \in ids}

findMany_AllPending(ids) ==
    {[id |-> id, status |-> PENDING] : id \in {i \in ids : expenses[i].exists}}

findMany(ids) ==
    {[id |-> id, status |-> expenses[id].status] :
        id \in {i \in ids : expenses[i].exists}}

(* updateMany({where: {id: {in: ids}, status: PENDING}, data}): one
   statement; the rows it matches, and the table after it. *)
updateManyMatched_AnyStatus(ids) ==
    {id \in ids : expenses[id].exists}

updateManyMatched(ids) ==
    {id \in ids : expenses[id].exists /\ expenses[id].status = PENDING}

updateMany_Unconditional(ids, data) ==
    [id \in ExpenseIds |->
        IF id \in ids /\ expenses[id].exists THEN Merge(expenses[id], data)
        ELSE expenses[id]]

(* updateMany({where: {id: {in: ids}, status: PENDING}, data}): one
   statement, so the rows it matches and the rows it writes are the same. *)
updateMany(ids, data) ==
    [id \in ExpenseIds |->
        IF id \in updateManyMatched(ids) THEN Merge(expenses[id], data)
        ELSE expenses[id]]

(* After findUnique: 404 when there is no row, 400 when the transition table
   refuses the move, else go on to the write. *)
LookupVerdict_NotFoundAsIllegal(expense, target, role) ==
    IF expense = None THEN "IllegalTransition"
    ELSE IF ~canTransitionTo(Val(expense).status, target, role)
         THEN "IllegalTransition"
    ELSE "pass"

LookupVerdict(expense, target, role) ==
    IF expense = None THEN "NotFound"
    ELSE IF ~canTransitionTo(Val(expense).status, target, role)
         THEN "IllegalTransition"
    ELSE "pass"

----------------------------------------------------------------------------
(* POST /api/expenses/[id]/approve *)

ApproveData_NoApprover(req, t) ==
    [status |-> APPROVED, approvalDate |-> Some(t)]

ApproveData(req, t) ==
    [status |-> APPROVED, approverId |-> req.actor, approvalDate |-> Some(t)]

ApproveStart(c, in) ==
    LET session == Session(c)
        guard == ManagerGuard(in.cookieToken, in.headerToken, session)
        req == [NoRequest EXCEPT !.op = "approve", !.actor = session,
                                 !.cookieToken = in.cookieToken,
                                 !.headerToken = in.headerToken]
        reqId == [req EXCEPT !.id = Some(in.id)]
        expense == findUnique(in.id)
        verdict == LookupVerdict(expense, APPROVED, RoleOf(Val(session)))
    IN  /\ Free(c)
        /\ UNCHANGED <<expenses, now, policy, summaries, isApproved>>
        /\ IF guard # "pass" THEN Respond(c, req, guard)
           ELSE IF verdict # "pass" THEN Respond(c, reqId, verdict)
           ELSE Proceed(c, reqId)

ApproveUpdate(c) ==
    LET req == requests[c]
    IN  /\ req.pc = "update" /\ req.op = "approve"
        /\ UNCHANGED <<now, policy, summaries, isApproved>>
        /\ expenses' = update(Val(req.id), ApproveData(req, now))
        /\ Respond(c, req, "OK")

----------------------------------------------------------------------------
(* POST /api/expenses/[id]/reject *)

RejectData(req, t) ==
    [status |-> REJECTED, rejectionReason |-> req.reason,
     approverId |-> req.actor, approvalDate |-> Some(t)]

RejectStart(c, in) ==
    LET session == Session(c)
        guard == ManagerGuard(in.cookieToken, in.headerToken, session)
        req == [NoRequest EXCEPT !.op = "reject", !.actor = session,
                                 !.cookieToken = in.cookieToken,
                                 !.headerToken = in.headerToken]
        reqId == [req EXCEPT !.id = Some(in.id), !.reason = in.reason]
        expense == findUnique(in.id)
        verdict == LookupVerdict(expense, REJECTED, RoleOf(Val(session)))
    IN  /\ Free(c)
        /\ UNCHANGED <<expenses, now, policy, summaries, isApproved>>
        /\ IF guard # "pass" THEN Respond(c, req, guard)
           ELSE IF ~rejectionSchema(in.reason)
                THEN Respond(c, reqId, "ValidationError")
           ELSE IF verdict # "pass" THEN Respond(c, reqId, verdict)
           ELSE Proceed(c, reqId)

RejectUpdate(c) ==
    LET req == requests[c]
    IN  /\ req.pc = "update" /\ req.op = "reject"
        /\ UNCHANGED <<now, policy, summaries, isApproved>>
        /\ expenses' = update(Val(req.id), RejectData(req, now))
        /\ Respond(c, req, "OK")

----------------------------------------------------------------------------
(* POST /api/expenses/[id]/pay *)

PayData_OwnAmountToday(req, t) ==
    [status |-> REIMBURSED, paidDate |-> Some(t), paidAmount |-> req.amount]

PayData_StampsPayer(req, t) ==
    [status |-> REIMBURSED,
     paidDate |-> IF req.paidDate # None THEN Some(Val(req.paidDate).t)
                  ELSE Some(t),
     paidAmount |-> IF req.paidAmount # None THEN req.paidAmount
                    ELSE req.amount,
     approverId |-> req.actor, approvalDate |-> Some(t)]

PayData(req, t) ==
    [status |-> REIMBURSED,
     paidDate |-> IF req.paidDate # None THEN Some(Val(req.paidDate).t)
                  ELSE Some(t),
     paidAmount |-> IF req.paidAmount # None THEN req.paidAmount
                    ELSE req.amount]

PayStart(c, in) ==
    LET session == Session(c)
        guard == ManagerGuard(in.cookieToken, in.headerToken, session)
        req == [NoRequest EXCEPT !.op = "pay", !.actor = session,
                                 !.cookieToken = in.cookieToken,
                                 !.headerToken = in.headerToken]
        reqId == [req EXCEPT !.id = Some(in.id), !.paidAmount = in.paidAmount,
                             !.paidDate = in.paidDate]
        expense == findUnique(in.id)
        verdict == LookupVerdict(expense, REIMBURSED, RoleOf(Val(session)))
    IN  /\ Free(c)
        /\ UNCHANGED <<expenses, now, policy, summaries, isApproved>>
        /\ IF guard # "pass" THEN Respond(c, req, guard)
           ELSE IF ~paymentSchema(in.paidAmount, in.paidDate)
                THEN Respond(c, reqId, "ValidationError")
           ELSE IF verdict # "pass" THEN Respond(c, reqId, verdict)
           ELSE Proceed(c, [reqId EXCEPT !.amount = Val(expense).amount])

PayUpdate(c) ==
    LET req == requests[c]
    IN  /\ req.pc = "update" /\ req.op = "pay"
        /\ UNCHANGED <<now, policy, summaries, isApproved>>
        /\ expenses' = update(Val(req.id), PayData(req, now))
        /\ Respond(c, req, "OK")

----------------------------------------------------------------------------
(* POST /api/expenses/bulk-approve.  The ids array is modelled by the set of
   its elements and its length (len = 0: empty, or not an array). *)

BulkData(req, t) ==
    [status |-> APPROVED, approverId |-> req.actor, approvalDate |-> Some(t)]

BulkApproveStart_PendingCheckFirst(c, in) ==
    LET session == Session(c)
        guard == ManagerGuard(in.cookieToken, in.headerToken, session)
        req == [NoRequest EXCEPT !.op = "bulkApprove", !.actor = session,
                                 !.cookieToken = in.cookieToken,
                                 !.headerToken = in.headerToken]
        reqIds == [req EXCEPT !.ids = in.ids, !.len = in.len]
        found == findMany(in.ids)
        foundIds == {e.id : e \in found}
        notFound == {id \in in.ids : id \notin foundIds}
        notPending == {e \in found : e.status # PENDING}
    IN  /\ Free(c)
        /\ UNCHANGED <<expenses, now, policy, summaries, isApproved>>
        /\ IF guard # "pass" THEN Respond(c, req, guard)
           ELSE IF in.len = 0 THEN Respond(c, reqIds, "InvalidRequest")
           ELSE IF in.len > MaxBulkItems THEN Respond(c, reqIds, "TooManyItems")
           ELSE IF notPending # {}
                THEN Respond(c, [reqIds EXCEPT !.listed = {e.id : e \in notPending}],
                             "InvalidState")
           ELSE IF notFound # {}
                THEN Respond(c, [reqIds EXCEPT !.listed = notFound], "NotFound")
           ELSE Proceed(c, reqIds)

BulkApproveStart(c, in) ==
    LET session == Session(c)
        guard == ManagerGuard(in.cookieToken, in.headerToken, session)
        req == [NoRequest EXCEPT !.op = "bulkApprove", !.actor = session,
                                 !.cookieToken = in.cookieToken,
                                 !.headerToken = in.headerToken]
        reqIds == [req EXCEPT !.ids = in.ids, !.len = in.len]
        found == findMany(in.ids)
        foundIds == {e.id : e \in found}
        notFound == {id \in in.ids : id \notin foundIds}
        notPending == {e \in found : e.status # PENDING}
    IN  /\ Free(c)
        /\ UNCHANGED <<expenses, now, policy, summaries, isApproved>>
        /\ IF guard # "pass" THEN Respond(c, req, guard)
           ELSE IF in.len = 0 THEN Respond(c, reqIds, "InvalidRequest")
           ELSE IF in.len > MaxBulkItems THEN Respond(c, reqIds, "TooManyItems")
           ELSE IF notFound # {}
                THEN Respond(c, [reqIds EXCEPT !.listed = notFound], "NotFound")
           ELSE IF notPending # {}
                THEN Respond(c, [reqIds EXCEPT !.listed = {e.id : e \in notPending}],
                             "InvalidState")
           ELSE Proceed(c, reqIds)

BulkApproveUpdate(c) ==
    LET req == requests[c]
    IN  /\ req.pc = "update" /\ req.op = "bulkApprove"
        /\ UNCHANGED <<now, policy, summaries, isApproved>>
        /\ expenses' = updateMany(req.ids, BulkData(req, now))
        /\ Respond(c, [req EXCEPT
                          !.approved = Some(Cardinality(updateManyMatched(req.ids)))],
                   "OK")

----------------------------------------------------------------------------
(* Dates.  A Date is a clock reading; getDay is the weekday (0 = Sunday),
   and setHours(0, 0, 0, 0) moves a date to the start of its day. *)

getDay(t) == (t \div TicksPerDay) % 7

setHoursZero(t) == (t \div TicksPerDay) * TicksPerDay

setDateBack(t, days) == t - days * TicksPerDay

daysBack_TodayCounts(dayOfWeek) ==
    IF dayOfWeek = 2 THEN 0
    ELSE IF dayOfWeek = 5 THEN 0
    ELSE IF dayOfWeek < 2 THEN dayOfWeek + 2
    ELSE IF dayOfWeek < 5 THEN dayOfWeek - 2
    ELSE 1

daysBack_FridayOnly(dayOfWeek) ==
    IF dayOfWeek = 5 THEN 3
    ELSE IF dayOfWeek < 5 THEN dayOfWeek + 2
    ELSE 1

daysBack(dayOfWeek) ==
    IF dayOfWeek = 2 THEN 4
    ELSE IF dayOfWeek = 5 THEN 3
    ELSE IF dayOfWeek < 2 THEN dayOfWeek + 2
    ELSE IF dayOfWeek < 5 THEN dayOfWeek - 2
    ELSE 1

(* getLastSummaryDate(), called when the clock reads t. *)
getLastSummaryDate(t) == setHoursZero(setDateBack(t, daysBack(getDay(t))))

----------------------------------------------------------------------------
(* Numbers.  An expense amount is a double: parseFloat of the decimal the
   client sent.  A double is its binary exponent e and its 53 mantissa bits
   m, most significant first (value = m * 2^(e - 52)); zero has no bits.
   Only positive, normal doubles occur. *)

MantissaBits == 53
AmountScale == 1000

FloatZero == [e |-> 0, m |-> << >>]

Zeros(n) == [i \in 1..n |-> 0]

(* The binary digits of the natural number n, none for 0. *)
RECURSIVE IntBits(_)
IntBits(n) == IF n = 0 THEN << >> ELSE Append(IntBits(n \div 2), n % 2)

(* 2^k modulo den *)
RECURSIVE Pow2Mod(_, _)
Pow2Mod(k, den) ==
    IF k <= 20 THEN (2 ^ k) % den
    ELSE (((2 ^ 20) % den) * Pow2Mod(k - 20, den)) % den

(* What is left of the fraction r / den after its first k binary digits,
   and those digits. *)
Shifted(r, den, k) == (r * Pow2Mod(k, den)) % den

FracBits(r, den, k) == [j \in 1..k |-> (2 * Shifted(r, den, j - 1)) \div den]

(* The zero digits before the first one digit of the fraction r / den. *)
LeadingZeros(r, den) ==
    CHOOSE z \in 0..20 : r * (2 ^ (z + 1)) >= den /\ r * (2 ^ z) < den

TrailingOnes(bits) ==
    CHOOSE t \in 0..Len(bits) :
        /\ \A i \in (Len(bits) - t + 1)..Len(bits) : bits[i] = 1
        /\ t = Len(bits) \/ bits[Len(bits) - t] = 0

(* bits + 1; one digit longer when every digit was one. *)
Increment(bits) ==
    IF TrailingOnes(bits) = Len(bits) THEN <<1>> \o Zeros(Len(bits))
    ELSE [i \in 1..Len(bits) |->
            IF i < Len(bits) - TrailingOnes(bits) THEN bits[i]
            ELSE IF i = Len(bits) - TrailingOnes(bits) THEN 1
            ELSE 0]

(* IEEE 754 round to nearest, ties to even: kept are the leading 53 bits,
   guard the next bit, sticky whether any later bit is set. *)
RoundNearestEven(e, kept, guard, sticky) ==
    LET up == guard = 1 /\ (sticky \/ kept[Len(kept)] = 1)
        inc == Increment(kept)
    IN  IF ~up THEN [e |-> e, m |-> kept]
        ELSE IF Len(inc) > Len(kept)
             THEN [e |-> e + 1, m |-> SubSeq(inc, 1, Len(kept))]
        ELSE [e |-> e, m |-> inc]

(* parseFloat of the decimal n / AmountScale: the nearest double. *)
parseFloat(n) ==
    LET den == AmountScale
        ip == IntBits(n \div den)
        r0 == n % den
        lz == IF ip = << >> THEN LeadingZeros(r0, den) ELSE 0
        r1 == Shifted(r0, den, lz)
        bits == FracBits(r1, den, MantissaBits - Len(ip))
        rem == Shifted(r1, den, MantissaBits - Len(ip))
        e == IF ip = << >> THEN -(lz + 1) ELSE Len(ip) - 1
    IN  IF n = 0 THEN FloatZero
        ELSE RoundNearestEven(e, ip \o bits, (2 * rem) \div den,
                              (2 * rem) % den # 0)

(* The carry into digit i of a + b: the nearest lower digit where a and b
   agree decides it. *)
CarryInto(a, b, i) ==
    IF \A j \in (i + 1)..Len(a) : a[j] # b[j] THEN 0
    ELSE a[CHOOSE j \in (i + 1)..Len(a) :
                a[j] = b[j] /\ \A k \in (i + 1)..(j - 1) : a[k] # b[k]]

(* a + b on digit sequences of one length; one digit longer on overflow. *)
AddBits(a, b) ==
    (IF CarryInto(a, b, 0) = 1 THEN <<1>> ELSE << >>)
        \o [i \in 1..Len(a) |-> (a[i] + b[i] + CarryInto(a, b, i)) % 2]

(* p + q on doubles: the exact sum, rounded to 53 bits. *)
FloatAdd(p, q) ==
    IF p.m = << >> THEN q
    ELSE IF q.m = << >> THEN p
    ELSE LET a == IF p.e >= q.e THEN p ELSE q
             b == IF p.e >= q.e THEN q ELSE p
             d == a.e - b.e
             sum == AddBits(a.m \o Zeros(d), Zeros(d) \o b.m)
             e == b.e + Len(sum) - MantissaBits
             rest == SubSeq(sum, MantissaBits + 1, Len(sum))
         IN  IF d > MantissaBits + 1 THEN a
             ELSE RoundNearestEven(e, SubSeq(sum, 1, MantissaBits),
                      IF rest = << >> THEN 0 ELSE rest[1],
                      \E i \in 2..Len(rest) : rest[i] = 1)

BitsLess(a, b) ==
    \E i \in 1..Len(a) : a[i] < b[i] /\ \A j \in 1..(i - 1) : a[j] = b[j]

FloatLess(p, q) ==
    IF q.m = << >> THEN FALSE
    ELSE IF p.m = << >> THEN TRUE
    ELSE IF p.e # q.e THEN p.e < q.e
    ELSE BitsLess(p.m, q.m)

(* new Prisma.Decimal(f) written to a DECIMAL(10,2) column, in cents.  The
   Decimal is the shortest decimal that reads back as f, and the column
   rounds it to two places, halves away from zero.  The half-cent points
   are decimals of three places, so the result is the number of half-cent
   points (c + 0.005) whose double is not above f: were f the double of such
   a point, its shortest decimal would be that point itself. *)
HalfCentAbove(cents) == parseFloat(10 * cents + 5)

RECURSIVE CentsBetween(_, _, _)
CentsBetween(f, lo, hi) ==
    IF lo = hi THEN lo
    ELSE IF FloatLess(f, HalfCentAbove((lo + hi) \div 2))
         THEN CentsBetween(f, lo, (lo + hi) \div 2)
    ELSE CentsBetween(f, ((lo + hi) \div 2) + 1, hi)

toDecimal2(f) == CentsBetween(f, 0, MaxCents)

----------------------------------------------------------------------------
(* Summary service (generateUserSummary, generateAllPendingSummaries).  A
   call is split where it awaits the store: the reads (user, expenses) and
   the insert of the summary row.  The user table does not change, so the
   two reads are one step. *)

MANUAL == "MANUAL"
SUBMISSION == "SUBMISSION"
SCHEDULED == "SCHEDULED"
SummaryTriggerType == {MANUAL, SUBMISSION, SCHEDULED}

UnknownUser == "nobody"

(* prisma.user.findUnique({where: {id}}) *)
findUser(userId) == IF userId \in Users THEN Some(userId) ELSE None

(* startDate || getLastSummaryDate(), endDate || now *)
SummaryWindow(startDate, endDate, t) ==
    [startDate |-> IF startDate # None THEN Val(startDate)
                   ELSE getLastSummaryDate(t),
     endDate |-> IF endDate # None THEN Val(endDate) ELSE t]

findManyPending_AnyStatus(userId, window) ==
    {id \in ExpenseIds :
        /\ expenses[id].exists
        /\ expenses[id].userId = Some(userId)
        /\ Val(expenses[id].createdAt) >= window.startDate
        /\ Val(expenses[id].createdAt) <= window.endDate}

findManyPending_AnyUser(userId, window) ==
    {id \in ExpenseIds :
        /\ expenses[id].exists
        /\ expenses[id].status = PENDING
        /\ Val(expenses[id].createdAt) >= window.startDate
        /\ Val(expenses[id].createdAt) <= window.endDate}

findManyPending_ByDate(userId, window) ==
    {id \in ExpenseIds :
        /\ expenses[id].exists
        /\ expenses[id].userId = Some(userId)
        /\ expenses[id].status = PENDING
        /\ Val(expenses[id].date) >= window.startDate
        /\ Val(expenses[id].date) <= window.endDate}

(* prisma.expense.findMany({where: {userId, status: PENDING,
   createdAt: {gte, lte}}}): the ids of the rows selected. *)
findManyPending(userId, window) ==
    {id \in ExpenseIds :
        /\ expenses[id].exists
        /\ expenses[id].userId = Some(userId)
        /\ expenses[id].status = PENDING
        /\ Val(expenses[id].createdAt) >= window.startDate
        /\ Val(expenses[id].createdAt) <= window.endDate}

(* The ways of listing each of the ids once. *)
Orderings(ids) ==
    {order \in [1..Cardinality(ids) -> ids] :
        \A i, j \in 1..Cardinality(ids) : i # j => order[i] # order[j]}

(* orderBy: {date: 'desc'}: the later incurred date first; rows of the same
   date come in either order. *)
orderByDateDesc(ids) ==
    {order \in Orderings(ids) :
        \A i, j \in 1..Len(order) :
            i < j => Val(expenses[order[i]].date) >= Val(expenses[order[j]].date)}

(* expenses.reduce((sum, exp) => sum + exp.amount, 0) *)
reduceAmounts(order) ==
    LET sum[k \in 0..Len(order)] ==
            IF k = 0 THEN FloatZero
            ELSE FloatAdd(sum[k - 1], parseFloat(Val(expenses[order[k]].amount)))
    IN  sum[Len(order)]

ExpenseSnapshot(id) ==
    [id |-> id, amount |-> Val(expenses[id].amount),
     date |-> Val(expenses[id].date), status |-> expenses[id].status]

(* The data of prisma.summary.create: totalAmount is in cents, as the
   DECIMAL(10,2) column holds it. *)
SummaryDraft(userId, triggerType, window, order) ==
    [userId |-> userId,
     startDate |-> window.startDate,
     endDate |-> window.endDate,
     totalAmount |-> toDecimal2(reduceAmounts(order)),
     expenseCount |-> Len(order),
     expenses |-> [i \in 1..Len(order) |-> ExpenseSnapshot(order[i])],
     triggerType |-> triggerType]

SummaryRow(data, id, t) ==
    [id |-> id, userId |-> data.userId, startDate |-> data.startDate,
     endDate |-> data.endDate, totalAmount |-> data.totalAmount,
     expenseCount |-> data.expenseCount, expenses |-> data.expenses,
     triggerType |-> data.triggerType, createdAt |-> t]

summaryCreate_Upsert(data) ==
    IF \E i \in 1..Len(summaries) : summaries[i].userId = data.userId
    THEN [i \in 1..Len(summaries) |->
            IF summaries[i].userId = data.userId
            THEN SummaryRow(data, i, now) ELSE summaries[i]]
    ELSE Append(summaries, SummaryRow(data, Len(summaries) + 1, now))

summaryCreate_OncePerWindow(data) ==
    IF \E i \in 1..Len(summaries) :
          /\ summaries[i].userId = data.userId
          /\ summaries[i].startDate = data.startDate
    THEN summaries
    ELSE Append(summaries, SummaryRow(data, Len(summaries) + 1, now))

(* prisma.summary.create({data}): the table after the insert. *)
summaryCreate(data) ==
    Append(summaries, SummaryRow(data, Len(summaries) + 1, now))

(* The reads of generateUserSummary(options) at time t: the drafts it can
   go on to insert; none when it returns null. *)
SummaryDrafts(options, t) ==
    LET window == SummaryWindow(options.startDate, options.endDate, t)
        selected == findManyPending(options.userId, window)
    IN  IF findUser(options.userId) = None THEN {}
        ELSE IF Cardinality(selected) = 0 THEN {}
        ELSE {SummaryDraft(options.userId, options.triggerType, window, order) :
                order \in orderByDateDesc(selected)}

GenerateUserSummaryStart(c, options) ==
    LET req == [NoRequest EXCEPT !.op = "generateUserSummary",
                                 !.options = Some(options)]
        drafts == SummaryDrafts(options, now)
    IN  /\ Free(c)
        /\ UNCHANGED <<expenses, now, policy, summaries, isApproved>>
        /\ IF drafts = {} THEN Respond(c, req, "null")
           ELSE \E data \in drafts :
                    requests' = [requests EXCEPT ![c] =
                        [req EXCEPT !.pc = "create", !.draft = Some(data)]]

GenerateUserSummaryCreate_ApprovesCaptured(c) ==
    LET req == requests[c]
        captured == {Val(req.draft).expenses[k].id :
                        k \in 1..Len(Val(req.draft).expenses)}
    IN  /\ req.pc = "create" /\ req.op = "generateUserSummary"
        /\ Len(summaries) < MaxSummaries
        /\ UNCHANGED <<now, policy, isApproved>>
        /\ expenses' = [id \in ExpenseIds |->
               IF id \in captured
               THEN [expenses[id] EXCEPT !.status = APPROVED]
               ELSE expenses[id]]
        /\ summaries' = summaryCreate(Val(req.draft))
        /\ Respond(c, [req EXCEPT !.draft = None,
                                  !.returned = <<Len(summaries')>>], "OK")

GenerateUserSummaryCreate(c) ==
    LET req == requests[c]
    IN  /\ req.pc = "create" /\ req.op = "generateUserSummary"
        /\ Len(summaries) < MaxSummaries
        /\ UNCHANGED <<expenses, now, policy, isApproved>>
        /\ summaries' = summaryCreate(Val(req.draft))
        /\ Respond(c, [req EXCEPT !.draft = None,
                                  !.returned = <<Len(summaries')>>], "OK")

(* prisma.user.findMany({where: {expenses: {some: {status: PENDING}}}}) *)
usersWithPending ==
    {u \in Users : \E id \in ExpenseIds :
        /\ expenses[id].exists
        /\ expenses[id].userId = Some(u)
        /\ expenses[id].status = PENDING}

(* After the loop body for one user: the next user, or the return. *)
LoopOn(c, req) ==
    IF req.todo = {} THEN Respond(c, req, "OK")
    ELSE requests' = [requests EXCEPT ![c] = [req EXCEPT !.pc = "loop"]]

GenerateAllStart(c, triggerType) ==
    LET req == [NoRequest EXCEPT !.op = "generateAllPendingSummaries",
                                 !.options = Some([triggerType |-> triggerType]),
                                 !.todo = usersWithPending]
    IN  /\ Free(c)
        /\ UNCHANGED <<expenses, now, policy, summaries, isApproved>>
        /\ LoopOn(c, req)

(* One pass of the loop up to the insert: generateUserSummary({userId,
   triggerType}) reads for the next user of the list; findMany gives the
   list in no stated order. *)
GenerateAllUser(c) ==
    LET req == requests[c]
    IN  /\ req.pc = "loop" /\ req.op = "generateAllPendingSummaries"
        /\ UNCHANGED <<expenses, now, policy, summaries, isApproved>>
        /\ \E u \in req.todo :
             LET drafts == SummaryDrafts(
                     [userId |-> u, triggerType |-> Val(req.options).triggerType,
                      startDate |-> None, endDate |-> None], now)
             IN  IF drafts = {} THEN LoopOn(c, [req EXCEPT !.todo = @ \ {u}])
                 ELSE \E data \in drafts :
                        requests' = [requests EXCEPT ![c] =
                            [req EXCEPT !.pc = "loopCreate", !.draft = Some(data)]]

GenerateAllCreate_KeepsUser(c) ==
    LET req == requests[c]
    IN  /\ req.pc = "loopCreate" /\ req.op = "generateAllPendingSummaries"
        /\ Len(summaries) < MaxSummaries
        /\ UNCHANGED <<expenses, now, policy, isApproved>>
        /\ summaries' = summaryCreate(Val(req.draft))
        /\ LoopOn(c, [req EXCEPT !.draft = None,
                                 !.returned = Append(@, Len(summaries'))])

GenerateAllCreate(c) ==
    LET req == requests[c]
    IN  /\ req.pc = "loopCreate" /\ req.op = "generateAllPendingSummaries"
        /\ Len(summaries) < MaxSummaries
        /\ UNCHANGED <<expenses, now, policy, isApproved>>
        /\ summaries' = summaryCreate(Val(req.draft))
        /\ LoopOn(c, [req EXCEPT !.todo = @ \ {Val(req.draft).userId},
                                 !.draft = None,
                                 !.returned = Append(@, Len(summaries'))])

(* GET /api/summaries.  A query parameter is absent (None) or a whole
   number; paginationSchema gives an absent one its default and accepts
   page >= 1 and 1 <= limit <= 100. *)
DefaultPage == 1
DefaultLimit == 20
MaxLimit == 100

paginationSchema(page, limit) ==
    LET p == IF page # None THEN Val(page) ELSE DefaultPage
        l == IF limit # None THEN Val(limit) ELSE DefaultLimit
    IN  IF p >= 1 /\ l >= 1 /\ l <= MaxLimit
        THEN Some([page |-> p, limit |-> l])
        ELSE None

(* orderBy: {createdAt: 'desc'}: the ids of the rows, newest first; rows
   created at the same time come in any order. *)
OrderedByCreatedAtDesc ==
    {order \in Orderings(1..Len(summaries)) :
        \A i, j \in 1..Len(summaries) :
            i < j => summaries[order[i]].createdAt >= summaries[order[j]].createdAt}

Min(a, b) == IF a < b THEN a ELSE b

findManySummaries_SkipPages(take, skip) ==
    {SubSeq(order, (skip \div take) + 1, Min((skip \div take) + take, Len(order))) :
        order \in OrderedByCreatedAtDesc}

(* prisma.summary.findMany({orderBy, take, skip}) *)
findManySummaries(take, skip) ==
    {SubSeq(order, skip + 1, Min(skip + take, Len(order))) :
        order \in OrderedByCreatedAtDesc}

(* prisma.summary.count() *)
countSummaries == Len(summaries)

(* Math.ceil(total / limit) *)
CeilDiv(total, limit) == (total + limit - 1) \div limit

(* The two queries of getAllSummaries are sent together (Promise.all) and
   run in either order; the response is built when both have answered. *)
ListAnswered(c, req) ==
    IF req.returned # << >> /\ req.total # None
    THEN Respond(c, [req EXCEPT !.returned = Val(req.returned[1]),
                                !.totalPages = Some(CeilDiv(Val(req.total),
                                                   Val(req.options).limit))],
                 "OK")
    ELSE requests' = [requests EXCEPT ![c] = req]

ListSummariesStart(c, in) ==
    LET session == Session(c)
        req == [NoRequest EXCEPT !.op = "listSummaries", !.actor = session]
        parsed == paginationSchema(in.page, in.limit)
    IN  /\ Free(c)
        /\ UNCHANGED <<expenses, now, policy, summaries, isApproved>>
        /\ IF session = None THEN Respond(c, req, "Unauthorized")
           ELSE IF ~isManager(RoleOf(Val(session))) THEN Respond(c, req, "Forbidden")
           ELSE IF parsed = None THEN Respond(c, req, "InvalidQuery")
           ELSE requests' = [requests EXCEPT ![c] =
                    [req EXCEPT !.pc = "reads", !.options = parsed]]

ListSummariesFindMany(c) ==
    LET req == requests[c]
        limit == Val(req.options).limit
        offset == (Val(req.options).page - 1) * limit
    IN  /\ req.pc = "reads" /\ req.op = "listSummaries"
        /\ req.returned = << >>
        /\ UNCHANGED <<expenses, now, policy, summaries, isApproved>>
        /\ \E rows \in findManySummaries(limit, offset) :
              ListAnswered(c, [req EXCEPT !.returned = <<Some(rows)>>])

ListSummariesCount(c) ==
    LET req == requests[c]
    IN  /\ req.pc = "reads" /\ req.op = "listSummaries"
        /\ req.total = None
        /\ UNCHANGED <<expenses, now, policy, summaries, isApproved>>
        /\ ListAnswered(c, [req EXCEPT !.total = Some(countSummaries)])

(* POST /api/cron/summaries.  Strings are sequences of characters; the
   Authorization header and the CRON_SECRET of the environment are absent
   (None) or a string. *)
BearerPrefix == <<"Bearer", " ">>

cronAuthorized_AnyBearer(authHeader, cronSecret) ==
    /\ authHeader # None
    /\ Len(Val(authHeader)) >= Len(BearerPrefix)
    /\ SubSeq(Val(authHeader), 1, Len(BearerPrefix)) = BearerPrefix

(* authHeader === `Bearer ${cronSecret}` *)
cronAuthorized(authHeader, cronSecret) ==
    authHeader = Some(BearerPrefix \o cronSecret)

(* The endpoint reads no session and no CSRF token.  When the checks pass it
   calls generateAllPendingSummaries(SCHEDULED); the request then runs that
   function's loop. *)
CronStart(c, in) ==
    LET req == [NoRequest EXCEPT !.op = "cronSummaries", !.options = Some(in)]
        call == [NoRequest EXCEPT
                    !.op = "generateAllPendingSummaries",
                    !.options = Some([triggerType |-> SCHEDULED,
                                      authorization |-> in.authorization,
                                      cronSecret |-> in.cronSecret]),
                    !.todo = usersWithPending]
    IN  /\ Free(c)
        /\ UNCHANGED <<expenses, now, policy, summaries, isApproved>>
        /\ IF in.cronSecret = None \/ in.cronSecret = Some(<< >>)
           THEN Respond(c, req, "ServerConfigurationError")
           ELSE IF ~cronAuthorized(in.authorization, Val(in.cronSecret))
                THEN Respond(c, req, "Unauthorized")
           ELSE LoopOn(c, call)

(* POST /api/summaries: a manager asks for the summary of one user, or of
   all when the body names none.  generateSummarySchema takes only the
   trigger type MANUAL.  Past the checks the request runs generateUserSummary
   or generateAllPendingSummaries; a null result is answered 404. *)
generateSummarySchema(userId, triggerType) == triggerType = MANUAL

SummariesPostStart(c, in) ==
    LET session == Session(c)
        guard == ManagerGuard(in.cookieToken, in.headerToken, session)
        req == [NoRequest EXCEPT !.op = "postSummaries", !.actor = session,
                                 !.cookieToken = in.cookieToken,
                                 !.headerToken = in.headerToken]
        options == [userId |-> Val(in.userId), triggerType |-> MANUAL,
                    startDate |-> None, endDate |-> None]
        one == [req EXCEPT !.op = "generateUserSummary",
                           !.options = Some(options)]
        all == [req EXCEPT !.op = "generateAllPendingSummaries",
                           !.options = Some([triggerType |-> MANUAL]),
                           !.todo = usersWithPending]
    IN  /\ Free(c)
        /\ UNCHANGED <<expenses, now, policy, summaries, isApproved>>
        /\ IF guard # "pass" THEN Respond(c, req, guard)
           ELSE IF ~generateSummarySchema(in.userId, in.triggerType)
                THEN Respond(c, req, "ValidationError")
           ELSE IF in.userId = None THEN LoopOn(c, all)
           ELSE IF SummaryDrafts(options, now) = {} THEN Respond(c, one, "null")
           ELSE \E data \in SummaryDrafts(options, now) :
                    requests' = [requests EXCEPT ![c] =
                        [one EXCEPT !.pc = "create", !.draft = Some(data)]]

(* POST /api/users/[id]/approve: session and role are checked before the
   CSRF token. *)
ApproveUserStart(c, in) ==
    LET session == Session(c)
        req == [NoRequest EXCEPT !.op = "approveUser", !.actor = session,
                                 !.cookieToken = in.cookieToken,
                                 !.headerToken = in.headerToken]
    IN  /\ Free(c)
        /\ UNCHANGED <<expenses, now, policy, summaries, isApproved>>
        /\ IF session = None THEN Respond(c, req, "Unauthorized")
           ELSE IF ~isManager(RoleOf(Val(session))) THEN Respond(c, req, "Forbidden")
           ELSE IF ~validateCsrfToken(in.cookieToken, in.headerToken)
                THEN Respond(c, req, "InvalidCsrf")
           ELSE IF findUser(in.userId) = None
                THEN Respond(c, req, "NotFound")
           ELSE Proceed(c, [req EXCEPT !.options = Some([userId |-> in.userId])])

ApproveUserUpdate(c) ==
    LET req == requests[c]
    IN  /\ req.pc = "update" /\ req.op = "approveUser"
        /\ UNCHANGED <<expenses, now, policy, summaries>>
        /\ isApproved' = [isApproved EXCEPT ![Val(req.options).userId] = TRUE]
        /\ Respond(c, req, "OK")

(* GET /api/expenses/[id]: the owner and managers may read the expense. *)
GetExpense(c, in) ==
    LET session == Session(c)
        req == [NoRequest EXCEPT !.op = "getExpense", !.actor = session]
        reqId == [req EXCEPT !.id = Some(in.id)]
        expense == findUnique(in.id)
    IN  /\ Free(c)
        /\ UNCHANGED <<expenses, now, policy, summaries, isApproved>>
        /\ IF session = None THEN Respond(c, req, "Unauthorized")
           ELSE IF expense = None THEN Respond(c, reqId, "NotFound")
           ELSE IF /\ Val(expense).userId # session
                   /\ ~isManager(RoleOf(Val(session)))
                THEN Respond(c, reqId, "Forbidden")
           ELSE Respond(c, [reqId EXCEPT !.listed = {in.id}], "OK")

(* GET /api/expenses.  expenseFilterSchema takes an optional status and the
   page and limit of paginationSchema; the filter on the incurred date is
   left out, as the model has no incurred date. *)
expenseFilterSchema(status, page, limit) ==
    IF (status = None \/ Val(status) \in ExpenseStatus)
          /\ paginationSchema(page, limit) # None
    THEN Some([status |-> status,
               page |-> Val(paginationSchema(page, limit)).page,
               limit |-> Val(paginationSchema(page, limit)).limit])
    ELSE None

listWhere_AllForAnyone(viewAll, session) ==
    IF ~viewAll THEN session ELSE None

(* The userId of the where clause: none when a manager asked for all. *)
listWhere(viewAll, session) ==
    IF ~viewAll \/ ~isManager(RoleOf(Val(session))) THEN session ELSE None

(* The ids of the rows the where clause selects. *)
whereExpenses(where) ==
    {id \in ExpenseIds :
        /\ expenses[id].exists
        /\ where.userId # None => expenses[id].userId = where.userId
        /\ where.status # None => expenses[id].status = Val(where.status)}

(* prisma.expense.findMany({where, orderBy: {createdAt: 'desc'}, skip,
   take}) *)
findManyExpenses(where, take, skip) ==
    {SubSeq(order, skip + 1, Min(skip + take, Len(order))) :
        order \in {o \in Orderings(whereExpenses(where)) :
                    \A i, j \in 1..Len(o) :
                        i < j => Val(expenses[o[i]].createdAt)
                                    >= Val(expenses[o[j]].createdAt)}}

ListExpensesStart(c, in) ==
    LET session == Session(c)
        req == [NoRequest EXCEPT !.op = "listExpenses", !.actor = session]
        parsed == expenseFilterSchema(in.status, in.page, in.limit)
        where == [userId |-> listWhere(in.all, session),
                  status |-> Val(parsed).status]
    IN  /\ Free(c)
        /\ UNCHANGED <<expenses, now, policy, summaries, isApproved>>
        /\ IF session = None THEN Respond(c, req, "Unauthorized")
           ELSE IF parsed = None THEN Respond(c, req, "InvalidQuery")
           ELSE requests' = [requests EXCEPT ![c] =
                    [req EXCEPT !.pc = "reads",
                                !.options = Some([page |-> Val(parsed).page,
                                                  limit |-> Val(parsed).limit,
                                                  all |-> in.all,
                                                  where |-> where])]]

ListExpensesFindMany(c) ==
    LET req == requests[c]
        limit == Val(req.options).limit
        skip == (Val(req.options).page - 1) * limit
    IN  /\ req.pc = "reads" /\ req.op = "listExpenses"
        /\ req.returned = << >>
        /\ UNCHANGED <<expenses, now, policy, summaries, isApproved>>
        /\ \E rows \in findManyExpenses(Val(req.options).where, limit, skip) :
              ListAnswered(c, [req EXCEPT !.returned = <<Some(rows)>>])

ListExpensesCount(c) ==
    LET req == requests[c]
    IN  /\ req.pc = "reads" /\ req.op = "listExpenses"
        /\ req.total = None
        /\ UNCHANGED <<expenses, now, policy, summaries, isApproved>>
        /\ ListAnswered(c, [req EXCEPT !.total =
               Some(Cardinality(whereExpenses(Val(req.options).where)))])

(* getLastSummaryDate() evaluated at the current clock reading. *)
EvalGetLastSummaryDate ==
    /\ policy.fn = "none"
    /\ policy' = [policy EXCEPT !.fn = "getLastSummaryDate",
                                !.date = Some(getLastSummaryDate(now))]
    /\ UNCHANGED <<expenses, requests, now, summaries, isApproved>>

----------------------------------------------------------------------------
(* Permission policy calls, one at a time, on inputs drawn from the enums *)

Queries ==
    {[NoQuery EXCEPT !.current = c, !.target = t, !.role = ro, !.isOwner = o] :
        c \in ExpenseStatus, t \in ExpenseStatus, ro \in Roles, o \in BOOLEAN}

Evaluate(fn, out) ==
    /\ policy.fn = "none"
    /\ policy' = [policy EXCEPT !.fn = fn, !.out = out]
    /\ UNCHANGED <<expenses, requests, now, summaries, isApproved>>

EvalCanTransitionTo ==
    Evaluate("canTransitionTo",
             canTransitionTo(policy.current, policy.target, policy.role))

EvalCanEdit ==
    Evaluate("canEdit", canEdit(policy.role, policy.isOwner, policy.current))

EvalCanDelete ==
    Evaluate("canDelete", canDelete(policy.role, policy.isOwner, policy.current))

EvalCanApprove == Evaluate("canApprove", canApprove(policy.role))

EvalCanMarkPaid == Evaluate("canMarkPaid", canMarkPaid(policy.role))

EvalCanViewAll == Evaluate("canViewAll", canViewAll(policy.role))

----------------------------------------------------------------------------
(* Spec: the handlers of two managers and one employee, interleaved at their
   store calls, on the expenses RaceIds; request bodies range over valid and
   invalid rejection reasons and valid payment bodies. *)

Amounts == {10050}
Racers == Users

CreateInputs ==
    [cookieToken : MatchingTokens, headerToken : MatchingTokens,
     id : RaceIds, amount : Amounts, date : {0}]

ApproveInputs ==
    [cookieToken : MatchingTokens, headerToken : MatchingTokens, id : RaceIds]

RejectInputs ==
    [cookieToken : MatchingTokens, headerToken : MatchingTokens, id : RaceIds,
     reason : ReasonInputs]

PayInputs ==
    [cookieToken : MatchingTokens, headerToken : MatchingTokens, id : RaceIds,
     paidAmount : {None, Some(7500)}, paidDate : {None, Some(ValidDate(0))}]

BulkInputs ==
    {[cookieToken |-> t, headerToken |-> t, ids |-> ids, len |-> Cardinality(ids)] :
        t \in MatchingTokens, ids \in SUBSET RaceIds \ {{}}}

Next ==
    \/ Tick
    \/ \E c \in Employees, in \in CreateInputs : CreateExpense(c, in)
    \/ \E c \in Racers, in \in ApproveInputs : ApproveStart(c, in)
    \/ \E c \in Racers : ApproveUpdate(c)
    \/ \E c \in Racers, in \in RejectInputs : RejectStart(c, in)
    \/ \E c \in Racers : RejectUpdate(c)
    \/ \E c \in Racers, in \in PayInputs : PayStart(c, in)
    \/ \E c \in Racers : PayUpdate(c)
    \/ \E c \in Racers, in \in BulkInputs : BulkApproveStart(c, in)
    \/ \E c \in Racers : BulkApproveUpdate(c)

Spec == Init /\ [][Next]_vars

(* BulkSpec: bulk approvals of two managers over the whole table, with lists
   that are empty, short, of exactly MaxBulkItems entries and longer, racing
   each other and single-item approvals and rejections. *)
BulkLists ==
    {in \in [cookieToken : MatchingTokens, headerToken : MatchingTokens,
             ids : SUBSET ExpenseIds,
             len : (0..NumExpenses) \cup {MaxBulkItems, MaxBulkItems + 1}] :
        /\ (in.len = 0) = (in.ids = {})
        /\ in.len >= Cardinality(in.ids)}

BulkCreateInputs ==
    [cookieToken : MatchingTokens, headerToken : MatchingTokens,
     id : ExpenseIds, amount : Amounts, date : {0}]

BulkApproveInputs ==
    [cookieToken : MatchingTokens, headerToken : MatchingTokens, id : ExpenseIds]

BulkRejectInputs ==
    [cookieToken : MatchingTokens, headerToken : MatchingTokens,
     id : ExpenseIds, reason : {Some(MaxReasonLength)}]

BulkNext ==
    \/ Tick
    \/ \E c \in Employees, in \in BulkCreateInputs : CreateExpense(c, in)
    \/ \E c \in Managers, in \in BulkLists : BulkApproveStart(c, in)
    \/ \E c \in Managers : BulkApproveUpdate(c)
    \/ \E in \in BulkApproveInputs : ApproveStart("m2", in)
    \/ ApproveUpdate("m2")
    \/ \E in \in BulkRejectInputs : RejectStart("m2", in)
    \/ RejectUpdate("m2")

BulkSpec == Init /\ [][BulkNext]_vars

(* BulkRaceSpec: two managers bulk-approve overlapping lists of the
   employees' expenses, with nothing else writing. *)
BulkRaceLists ==
    {[cookieToken |-> t, headerToken |-> t, ids |-> ids, len |-> Cardinality(ids)] :
        t \in MatchingTokens, ids \in SUBSET ExpenseIds \ {{}}}

BulkRaceNext ==
    \/ Tick
    \/ \E c \in Employees, in \in BulkCreateInputs : CreateExpense(c, in)
    \/ \E c \in Managers, in \in BulkRaceLists : BulkApproveStart(c, in)
    \/ \E c \in Managers : BulkApproveUpdate(c)

BulkRaceSpec == Init /\ [][BulkRaceNext]_vars

(* SummarySpec: on Monday noon and on Wednesday, an employee and a manager
   file expenses, the manager approves the first, and another manager
   generates summaries for one user. *)
SummaryFirstTime == TicksPerDay + 1
SummaryLastTime == 3 * TicksPerDay
SummaryOwners == {"e1", "m1"}
SummaryAmounts == {5, 30}

SummaryInit ==
    /\ expenses = [id \in ExpenseIds |-> NoExpense]
    /\ requests = [c \in Clients |-> NoRequest]
    /\ now = SummaryFirstTime
    /\ policy = NoQuery
    /\ summaries = << >>
    /\ isApproved = [u \in Users |-> u \in Managers]

(* The first expense is the employee's, the others are either user's. *)
SummaryCreateInputs(c) ==
    {in \in [cookieToken : MatchingTokens, headerToken : MatchingTokens,
             id : ExpenseIds, amount : SummaryAmounts, date : {0}] :
        /\ in.id = 1 => c = "e1"
        /\ in.amount = (IF in.id = 1 THEN 5 ELSE 30)}

SummaryOptions ==
    [userId : {"e1", UnknownUser}, triggerType : {MANUAL},
     startDate : {None}, endDate : {None}]

SummaryApproveInputs ==
    [cookieToken : MatchingTokens, headerToken : MatchingTokens, id : RaceIds]

SummaryTimes == {SummaryFirstTime, SummaryLastTime}

SummaryNext ==
    \/ Elapse(SummaryTimes)
    \/ \E c \in SummaryOwners : \E in \in SummaryCreateInputs(c) : CreateExpense(c, in)
    \/ \E in \in SummaryApproveInputs : ApproveStart("m1", in)
    \/ ApproveUpdate("m1")
    \/ \E options \in SummaryOptions : GenerateUserSummaryStart("m2", options)
    \/ GenerateUserSummaryCreate("m2")

SummarySpec == SummaryInit /\ [][SummaryNext]_vars

(* SweepSpec: the same days, with the other manager generating summaries
   for all users. *)
SweepNext ==
    \/ Elapse(SummaryTimes)
    \/ \E c \in SummaryOwners : \E in \in SummaryCreateInputs(c) : CreateExpense(c, in)
    \/ \E in \in SummaryApproveInputs : ApproveStart("m1", in)
    \/ ApproveUpdate("m1")
    \/ GenerateAllStart("m2", SCHEDULED)
    \/ GenerateAllUser("m2")
    \/ GenerateAllCreate("m2")

SweepSpec == SummaryInit /\ [][SweepNext]_vars

(* SnapshotSpec: one manager approves, rejects, pays and bulk-approves an
   employee's expense while another generates summaries of it. *)
SnapshotCreateInputs ==
    [cookieToken : MatchingTokens, headerToken : MatchingTokens,
     id : RaceIds, amount : Amounts, date : {0}]

SnapshotInputs ==
    [cookieToken : MatchingTokens, headerToken : MatchingTokens,
     id : RaceIds, reason : {Some(1)}, paidAmount : {None},
     paidDate : {None}, ids : {RaceIds}, len : {NumRaced}]

SnapshotOptions ==
    [userId : {"e1"}, triggerType : {MANUAL}, startDate : {None},
     endDate : {None}]

SnapshotNext ==
    \/ Tick
    \/ \E in \in SnapshotCreateInputs : CreateExpense("e1", in)
    \/ \E in \in SnapshotInputs : ApproveStart("m1", in)
    \/ ApproveUpdate("m1")
    \/ \E in \in SnapshotInputs : RejectStart("m1", in)
    \/ RejectUpdate("m1")
    \/ \E in \in SnapshotInputs : PayStart("m1", in)
    \/ PayUpdate("m1")
    \/ \E in \in SnapshotInputs : BulkApproveStart("m1", in)
    \/ BulkApproveUpdate("m1")
    \/ \E options \in SnapshotOptions : GenerateUserSummaryStart("m2", options)
    \/ GenerateUserSummaryCreate("m2")
    \/ GenerateAllStart("m2", SCHEDULED)
    \/ GenerateAllUser("m2")
    \/ GenerateAllCreate("m2")

SnapshotSpec == Init /\ [][SnapshotNext]_vars

(* CaptureSpec: on the same days, a manager approves and rejects the
   expenses of an employee and of a manager while another manager generates
   the summary of either. *)
CaptureOptions ==
    [userId : SummaryOwners, triggerType : {MANUAL}, startDate : {None},
     endDate : {None}]

CaptureRejectInputs ==
    [cookieToken : MatchingTokens, headerToken : MatchingTokens,
     id : ExpenseIds, reason : {Some(1)}]

CaptureApproveInputs ==
    [cookieToken : MatchingTokens, headerToken : MatchingTokens, id : ExpenseIds]

CaptureNext ==
    \/ Elapse(SummaryTimes)
    \/ \E c \in SummaryOwners : \E in \in SummaryCreateInputs(c) : CreateExpense(c, in)
    \/ \E in \in CaptureApproveInputs : ApproveStart("m1", in)
    \/ ApproveUpdate("m1")
    \/ \E in \in CaptureRejectInputs : RejectStart("m1", in)
    \/ RejectUpdate("m1")
    \/ \E options \in CaptureOptions : GenerateUserSummaryStart("m2", options)
    \/ GenerateUserSummaryCreate("m2")

CaptureSpec == SummaryInit /\ [][CaptureNext]_vars

(* PaySpec: an employee's expense is approved or rejected by one manager
   and marked as paid by the other, with bodies that give or omit the amount
   and the date, valid and not. *)
PaidAmounts == {None, Some(0), Some(0 - 100), Some(7500)}
PaidDates == {None, Some(ValidDate(0)), Some(InvalidDate)}

PayBodies ==
    [cookieToken : MatchingTokens, headerToken : MatchingTokens, id : RaceIds,
     paidAmount : PaidAmounts, paidDate : PaidDates]

PayReasons ==
    [cookieToken : MatchingTokens, headerToken : MatchingTokens, id : RaceIds,
     reason : {Some(1)}]

PayNext ==
    \/ Tick
    \/ \E in \in CreateInputs : CreateExpense("e1", in)
    \/ \E in \in ApproveInputs : ApproveStart("m1", in)
    \/ ApproveUpdate("m1")
    \/ \E in \in PayReasons : RejectStart("m1", in)
    \/ RejectUpdate("m1")
    \/ \E in \in PayBodies : PayStart("m2", in)
    \/ PayUpdate("m2")

PaySpec == Init /\ [][PayNext]_vars

(* ListSpec: a manager generates summaries of an employee's expense while
   another manager lists the summaries page by page, and a visitor
   tries to. *)
PageInputs == {None, Some(0), Some(1), Some(2), Some(3)}
LimitInputs == {None, Some(0), Some(1), Some(2), Some(MaxLimit), Some(MaxLimit + 1)}
ListInputs == [page : PageInputs, limit : LimitInputs]
ListDefaults == [page |-> None, limit |-> None]

ListNext ==
    \/ Tick
    \/ \E in \in CreateInputs : CreateExpense("e1", in)
    \/ \E options \in SnapshotOptions : GenerateUserSummaryStart("m1", options)
    \/ GenerateUserSummaryCreate("m1")
    \/ \E in \in ListInputs : ListSummariesStart("m2", in)
    \/ ListSummariesStart(Anonymous, ListDefaults)
    \/ ListSummariesFindMany("m2")
    \/ ListSummariesCount("m2")

ListSpec == Init /\ [][ListNext]_vars

(* CronSpec: users file expenses and a scheduler, who has no session, calls
   the cron endpoint with and without the right header, against an
   environment with and without a secret. *)
CronSecrets == {None, Some(<< >>), Some(<<"s">>)}
CronHeaders ==
    {None, Some(<<"s">>), Some(BearerPrefix), Some(BearerPrefix \o <<"s">>),
     Some(BearerPrefix \o <<"t">>), Some(<<"Basic", " ", "s">>)}
CronInputs == [authorization : CronHeaders, cronSecret : CronSecrets]

CronNext ==
    \/ \E c \in SummaryOwners : \E in \in SummaryCreateInputs(c) : CreateExpense(c, in)
    \/ \E in \in CronInputs : CronStart(Anonymous, in)
    \/ GenerateAllUser(Anonymous)
    \/ GenerateAllCreate(Anonymous)

CronSpec == Init /\ [][CronNext]_vars

(* CsrfSpec: a manager sends every state-changing request with the CSRF
   cookie and header missing, different and equal. *)
CsrfPairs ==
    {<< << >>, <<1>> >>, << <<1>>, << >> >>, << << >>, << >> >>,
     << <<1>>, <<2>> >>, << <<1>>, <<1, 1>> >>, << <<1>>, <<1>> >>}

CsrfInputs ==
    {[cookieToken |-> pair[1], headerToken |-> pair[2], id |-> id,
      amount |-> amount, date |-> 0, reason |-> Some(1), paidAmount |-> None,
      paidDate |-> None, ids |-> {id}, len |-> 1, userId |-> userId,
      triggerType |-> MANUAL] :
        pair \in CsrfPairs, id \in RaceIds, amount \in Amounts,
        userId \in {None, Some("m1")}}

CsrfUserInputs ==
    {[cookieToken |-> pair[1], headerToken |-> pair[2], userId |-> "e1"] :
        pair \in CsrfPairs}

CsrfNext ==
    \/ \E in \in CsrfInputs : PostExpense("m1", in)
    \/ \E in \in CsrfInputs : ApproveStart("m1", in)
    \/ ApproveUpdate("m1")
    \/ \E in \in CsrfInputs : RejectStart("m1", in)
    \/ RejectUpdate("m1")
    \/ \E in \in CsrfInputs : PayStart("m1", in)
    \/ PayUpdate("m1")
    \/ \E in \in CsrfInputs : BulkApproveStart("m1", in)
    \/ BulkApproveUpdate("m1")
    \/ \E in \in CsrfInputs : SummariesPostStart("m1", in)
    \/ GenerateUserSummaryCreate("m1")
    \/ GenerateAllUser("m1")
    \/ GenerateAllCreate("m1")
    \/ \E in \in CsrfUserInputs : ApproveUserStart("m1", in)
    \/ ApproveUserUpdate("m1")

CsrfSpec == Init /\ [][CsrfNext]_vars

(* RangeSpec: over five clock readings an employee and a manager file
   expenses incurred on the first or the fourth, a manager approves the first
   expense, and another manager generates the employee's summary for the
   third to fourth readings. *)
RangeTimes == 1..4
RangeDates == {0, 3}

RangeCreateInputs(c) ==
    {in \in [cookieToken : MatchingTokens, headerToken : MatchingTokens,
             id : ExpenseIds, amount : SummaryAmounts, date : RangeDates] :
        /\ in.id = 1 => c = "e1"
        /\ in.amount = (IF in.id = 1 THEN 5 ELSE 30)}

RangeOptions ==
    [userId : {"e1"}, triggerType : {MANUAL}, startDate : {Some(2)},
     endDate : {Some(3)}]

RangeNext ==
    \/ Elapse(RangeTimes)
    \/ \E c \in SummaryOwners : \E in \in RangeCreateInputs(c) : CreateExpense(c, in)
    \/ \E in \in SummaryApproveInputs : ApproveStart("m1", in)
    \/ ApproveUpdate("m1")
    \/ \E options \in RangeOptions : GenerateUserSummaryStart("m2", options)
    \/ GenerateUserSummaryCreate("m2")

RangeSpec == Init /\ [][RangeNext]_vars

(* ReadSpec: an employee and a manager file expenses, fetch expenses by id
   and list them, the employee with and without all=true. *)
ReadIds == [id : ExpenseIds]
ReadFilters ==
    [status : {None, Some(APPROVED)}, page : {None, Some(2)},
     limit : {None, Some(1)}, all : BOOLEAN]
ReadAll == [status |-> None, page |-> None, limit |-> None, all |-> TRUE]
Readers == {"e1", "m1"}

ReadNext ==
    \/ \E c \in SummaryOwners : \E in \in SummaryCreateInputs(c) : CreateExpense(c, in)
    \/ \E c \in Readers, in \in ReadIds : GetExpense(c, in)
    \/ \E in \in ReadFilters : ListExpensesStart("e1", in)
    \/ ListExpensesStart("m1", ReadAll)
    \/ \E c \in Readers : ListExpensesFindMany(c)
    \/ \E c \in Readers : ListExpensesCount(c)

ReadSpec == Init /\ [][ReadNext]_vars

(* CutoffSpec: getLastSummaryDate at every clock reading of four weeks. *)
CutoffWeeks == 4
CutoffTimes == 0..(CutoffWeeks * 7 * TicksPerDay - 1)

CutoffInit ==
    /\ expenses = [id \in ExpenseIds |-> NoExpense]
    /\ requests = [c \in Clients |-> NoRequest]
    /\ now \in CutoffTimes
    /\ policy = NoQuery
    /\ summaries = << >>
    /\ isApproved = [u \in Users |-> u \in Managers]

CutoffNext == EvalGetLastSummaryDate

CutoffSpec == CutoffInit /\ [][CutoffNext]_vars

(* PolicySpec: the policy functions applied to every combination of their
   arguments. *)
PolicyInit ==
    /\ expenses = [id \in ExpenseIds |-> NoExpense]
    /\ requests = [c \in Clients |-> NoRequest]
    /\ now = 0
    /\ policy \in Queries
    /\ summaries = << >>
    /\ isApproved = [u \in Users |-> u \in Managers]

PolicyNext ==
    \/ EvalCanTransitionTo
    \/ EvalCanEdit
    \/ EvalCanDelete
    \/ EvalCanApprove
    \/ EvalCanMarkPaid
    \/ EvalCanViewAll

PolicySpec == PolicyInit /\ [][PolicyNext]_vars

----------------------------------------------------------------------------
(* Properties *)

SingleOps == {"approve", "reject", "pay"}

(* The status a single-item operation requires and the one it moves to. *)
SourceOf(op) == IF op = "pay" THEN APPROVED ELSE PENDING

(* In this step client c's handler ran from its start to its read. *)
Started(c) == Free(c) /\ requests'[c] # requests[c]

(* In this step client c's handler made its write. *)
Wrote(c) == requests[c].pc = "update" /\ requests'[c].pc = "done"

(* In this step c's handler got past the manager guard and the body
   validation of a single-item operation and looked up expense id. *)
LookedUp(c, id) ==
    /\ Started(c)
    /\ requests'[c].op \in SingleOps
    /\ requests'[c].id = Some(id)
    /\ requests'[c].result # "ValidationError"

Succeeded(c, op, id) ==
    /\ requests[c].pc = "done"
    /\ requests[c].op = op
    /\ requests[c].id = Some(id)
    /\ requests[c].result = "OK"

(* C1: of two Approve calls by managers on the same expense that run
   concurrently, at most one returns success. *)
C1_AtMostOneApproveSucceeds ==
    \A id \in ExpenseIds : \A c1 \in Managers, c2 \in Managers :
        (Succeeded(c1, "approve", id) /\ Succeeded(c2, "approve", id)) => c1 = c2

(* C2: every change of an expense's stored status is an edge of the
   transition table, so REJECTED and REIMBURSED are never left. *)
C2_OnlyTableEdges ==
    [][\A id \in ExpenseIds :
          (expenses[id].exists /\ expenses'[id].status # expenses[id].status)
          => expenses'[id].status
                \in StatusTransitions[expenses[id].status].allowedNextStatuses]_vars

(* C3: a single-item operation whose lookup finds the expense in a status
   other than the one it requires (PENDING for approve and reject, APPROVED
   for pay) answers IllegalTransition, makes no write, and leaves the table
   as it is. *)
C3_WrongStatusRefused ==
    [][\A c \in Clients, id \in ExpenseIds :
          (/\ LookedUp(c, id)
           /\ expenses[id].exists
           /\ expenses[id].status # SourceOf(requests'[c].op))
          => (/\ requests'[c].pc = "done"
              /\ requests'[c].result = "IllegalTransition"
              /\ expenses' = expenses)]_vars

C3_Witness ==
    \E c \in Managers, id \in ExpenseIds :
        /\ requests[c].pc = "done"
        /\ requests[c].op = "approve"
        /\ requests[c].id = Some(id)
        /\ requests[c].result = "IllegalTransition"
        /\ expenses[id].status = APPROVED
        /\ expenses[id].approverId # Some(c)

(* C4: canTransitionTo is true exactly when the target is allowed from the
   current status and the required role is null or the actor's; that is,
   exactly for PENDING->APPROVED, PENDING->REJECTED and APPROVED->REIMBURSED
   with role MANAGER. *)
C4_CanTransitionToTable ==
    policy.fn = "canTransitionTo" =>
        /\ policy.out =
              (/\ policy.target
                    \in StatusTransitions[policy.current].allowedNextStatuses
               /\ \/ StatusTransitions[policy.current].requiredRole = None
                  \/ StatusTransitions[policy.current].requiredRole
                        = Some(policy.role))
        /\ policy.out =
              (/\ policy.role = MANAGER
               /\ <<policy.current, policy.target>>
                     \in {<<PENDING, APPROVED>>, <<PENDING, REJECTED>>,
                          <<APPROVED, REIMBURSED>>})
        /\ policy.current \in {REJECTED, REIMBURSED} => ~policy.out

C4_Witness ==
    /\ policy.fn = "canTransitionTo"
    /\ policy.current = APPROVED
    /\ policy.target = REIMBURSED
    /\ policy.out

(* C5: a call of approve, reject, pay or bulk-approve by an EMPLOYEE is
   answered with an error, never reaches a write, and changes no expense. *)
C5_EmployeeChangesNothing ==
    [][\A c \in Employees :
          requests'[c] # requests[c]
          => (/\ requests'[c].pc = "done"
              /\ requests'[c].result \notin {"OK", "none"}
              /\ expenses' = expenses)]_vars

C5_Witness ==
    \E c \in Employees, id \in ExpenseIds :
        /\ requests[c].pc = "done"
        /\ requests[c].op = "bulkApprove"
        /\ requests[c].result = "Forbidden"
        /\ expenses[id].exists
        /\ expenses[id].status = PENDING

(* C6: an expense has paidAmount and paidDate if and only if it is
   REIMBURSED. *)
C6_PaidIffReimbursed ==
    \A id \in ExpenseIds :
        expenses[id].exists =>
            /\ (expenses[id].paidAmount # None) = (expenses[id].status = REIMBURSED)
            /\ (expenses[id].paidDate # None) = (expenses[id].status = REIMBURSED)

(* C7: an expense has a rejectionReason if and only if it is REJECTED. *)
C7_ReasonIffRejected ==
    \A id \in ExpenseIds :
        expenses[id].exists =>
            ((expenses[id].rejectionReason # None) = (expenses[id].status = REJECTED))

(* C8: every expense that is APPROVED, REJECTED or REIMBURSED has an
   approverId, and a write of approve, reject or bulk-approve that changes a
   status stamps approverId with the manager who made the call. *)
C8_ApproverStamped ==
    /\ [](\A id \in ExpenseIds :
            (expenses[id].exists /\ expenses[id].status # PENDING)
            => expenses[id].approverId \in {Some(m) : m \in Managers})
    /\ [][\A c \in Clients, id \in ExpenseIds :
            (/\ Wrote(c)
             /\ requests[c].op \in {"approve", "reject", "bulkApprove"}
             /\ expenses'[id] # expenses[id])
            => expenses'[id].approverId = Some(c)]_vars

C8_Witness ==
    \E id \in ExpenseIds :
        /\ expenses[id].status = REIMBURSED
        /\ expenses[id].approverId # None

(* C9: Reject by a manager with a missing, empty or longer-than-500 reason
   answers ValidationError and changes nothing, whether the expense is
   absent, PENDING or not PENDING; a reason of exactly 500 characters passes
   the validation. *)
C9_ReasonValidatedFirst ==
    [][\A c \in Managers :
          (Started(c) /\ requests'[c].op = "reject" /\ requests'[c].id # None)
          => /\ (requests'[c].reason \notin {Some(n) : n \in 1..500})
                  => (/\ requests'[c].pc = "done"
                      /\ requests'[c].result = "ValidationError"
                      /\ expenses' = expenses)
             /\ (requests'[c].reason = Some(500))
                  => requests'[c].result # "ValidationError"]_vars

C9_Witness ==
    \E c1 \in Managers, c2 \in Managers, id \in ExpenseIds :
        /\ requests[c1].op = "reject"
        /\ requests[c1].result = "ValidationError"
        /\ requests[c1].reason = Some(501)
        /\ requests[c1].id = Some(id)
        /\ expenses[id].status = REIMBURSED
        /\ requests[c2].op = "reject"
        /\ requests[c2].reason = Some(500)
        /\ requests[c2].result = "IllegalTransition"

(* C10: approve, reject and pay by a manager, with a valid body, on an id
   that has no row answer NotFound, make no write, and leave the table as it
   is (no row is created). *)
C10_AbsentIsNotFound ==
    [][\A c \in Clients, id \in ExpenseIds :
          (LookedUp(c, id) /\ ~expenses[id].exists)
          => (/\ requests'[c].pc = "done"
              /\ requests'[c].result = "NotFound"
              /\ expenses' = expenses)]_vars

C10_Witness ==
    \E c1 \in Managers, c2 \in Managers :
        /\ requests[c1].op = "pay"
        /\ requests[c1].result = "NotFound"
        /\ requests[c2].op = "approve"
        /\ requests[c2].result = "NotFound"
        /\ \A id \in ExpenseIds : ~expenses[id].exists

----------------------------------------------------------------------------
(* Bulk approval *)

(* In this step manager c's bulk approval ran from its start to its read,
   with a list that passed the shape and size checks. *)
BulkLookedUp(c) ==
    /\ Started(c)
    /\ requests'[c].op = "bulkApprove"
    /\ requests'[c].len \in 1..MaxBulkItems

Missing(ids) == {id \in ids : ~expenses[id].exists}

NonPending(ids) == {id \in ids : expenses[id].exists /\ expenses[id].status # PENDING}

(* C11: a bulk approval whose list holds an id without a row answers
   NotFound listing exactly the missing ids, goes no further, and changes no
   expense, the requested PENDING ones included. *)
C11_BulkNotFound ==
    [][\A c \in Managers :
          (BulkLookedUp(c) /\ Missing(requests'[c].ids) # {})
          => (/\ requests'[c].pc = "done"
              /\ requests'[c].result = "NotFound"
              /\ requests'[c].listed = Missing(requests'[c].ids)
              /\ expenses' = expenses)]_vars

C11_Witness ==
    \E c \in Managers :
        /\ requests[c].op = "bulkApprove"
        /\ requests[c].result = "NotFound"
        /\ requests[c].ids = {1, 2}
        /\ requests[c].listed = {2}
        /\ expenses[1].exists /\ expenses[1].status = PENDING
        /\ ~expenses[2].exists

(* C12: a bulk approval whose ids all have rows, one of them not PENDING,
   answers InvalidState with failed = the requested ids that are not
   PENDING, goes no further, and leaves every requested PENDING expense
   PENDING. *)
C12_BulkInvalidState ==
    [][\A c \in Managers :
          (/\ BulkLookedUp(c)
           /\ Missing(requests'[c].ids) = {}
           /\ NonPending(requests'[c].ids) # {})
          => (/\ requests'[c].pc = "done"
              /\ requests'[c].result = "InvalidState"
              /\ requests'[c].listed = NonPending(requests'[c].ids)
              /\ expenses' = expenses)]_vars

C12_Witness ==
    \E c \in Managers :
        /\ requests[c].op = "bulkApprove"
        /\ requests[c].result = "InvalidState"
        /\ requests[c].ids = {1, 2}
        /\ requests[c].listed = {2}
        /\ expenses[1].status = PENDING /\ expenses[1].exists
        /\ expenses[2].status = APPROVED

(* C13: a bulk approval with more than 100 ids answers TooManyItems, and
   with an empty or non-list ids value InvalidRequest, whatever the ids and
   the table hold, without going on to the write; a list of exactly 100 ids
   passes the size check. *)
C13_BulkSizeChecks ==
    [][\A c \in Managers :
          (Started(c) /\ requests'[c].op = "bulkApprove")
          => /\ requests'[c].len > 100
                  => (/\ requests'[c].pc = "done"
                      /\ requests'[c].result = "TooManyItems"
                      /\ expenses' = expenses)
             /\ requests'[c].len = 0
                  => (/\ requests'[c].pc = "done"
                      /\ requests'[c].result = "InvalidRequest"
                      /\ expenses' = expenses)
             /\ requests'[c].len = 100
                  => requests'[c].result \notin {"TooManyItems", "InvalidRequest"}]_vars

C13_Witness ==
    \E c1 \in Managers, c2 \in Managers :
        /\ requests[c1].op = "bulkApprove"
        /\ requests[c1].len = 101
        /\ requests[c1].ids = {1, 2}
        /\ requests[c1].result = "TooManyItems"
        /\ requests[c2].op = "bulkApprove"
        /\ requests[c2].len = 100
        /\ requests[c2].ids = {1, 2}
        /\ requests[c2].result = "OK"
        /\ requests[c2].approved = Some(2)

(* C14: the write of a bulk approval leaves every expense that is no longer
   PENDING exactly as it is (status, approverId, approvalDate), and the
   approved count it returns is the number of expenses this write moved from
   PENDING to APPROVED. *)
C14_BulkLosesRaceCleanly ==
    [][\A c \in Managers :
          (Wrote(c) /\ requests[c].op = "bulkApprove")
          => /\ \A id \in ExpenseIds :
                    (expenses[id].exists /\ expenses[id].status # PENDING)
                    => expenses'[id] = expenses[id]
             /\ requests'[c].approved =
                    Some(Cardinality({id \in ExpenseIds :
                            /\ expenses[id].status = PENDING
                            /\ expenses'[id].status = APPROVED
                            /\ expenses'[id] # expenses[id]}))]_vars

C14_Witness ==
    \E c \in Managers :
        /\ requests[c].op = "bulkApprove"
        /\ requests[c].result = "OK"
        /\ requests[c].ids = {1, 2}
        /\ requests[c].approved = Some(1)
        /\ expenses[1].status = REJECTED
        /\ expenses[1].approverId # Some(c)
        /\ expenses[2].status = APPROVED
        /\ expenses[2].approverId = Some(c)

-----------------------------------------------------------------------------
(* Summaries *)

(* The user has a PENDING expense created within [startDate, endDate]. *)
HasPendingWithin(userId, startDate, endDate) ==
    \E id \in ExpenseIds :
        /\ expenses[id].exists
        /\ expenses[id].userId = Some(userId)
        /\ expenses[id].status = PENDING
        /\ Val(expenses[id].createdAt) >= startDate
        /\ Val(expenses[id].createdAt) <= endDate

(* The window of a call with the given options made now. *)
WindowStart(options) ==
    IF options.startDate # None THEN Val(options.startDate)
    ELSE getLastSummaryDate(now)

WindowEnd(options) ==
    IF options.endDate # None THEN Val(options.endDate) ELSE now

(* The step appends exactly one row to the Summary table. *)
OneRowCreated ==
    /\ Len(summaries') = Len(summaries) + 1
    /\ \A i \in 1..Len(summaries) : summaries'[i] = summaries[i]

(* C15: generateUserSummary goes on to create a row exactly when, at its
   reads, the user exists and has a PENDING expense created within the
   window; otherwise it returns null and the Summary table is unchanged.  Its
   insert adds exactly one row, for that user, and that row is what the call
   returns. *)
C15_SummaryIffPending ==
    [][\A c \in Clients :
          /\ (Started(c) /\ requests'[c].op = "generateUserSummary")
             => LET options == Val(requests'[c].options)
                IN  /\ summaries' = summaries
                    /\ IF /\ options.userId \in Users
                          /\ HasPendingWithin(options.userId,
                                 WindowStart(options), WindowEnd(options))
                       THEN requests'[c].pc = "create"
                       ELSE /\ requests'[c].pc = "done"
                            /\ requests'[c].result = "null"
                            /\ requests'[c].returned = << >>
          /\ (requests[c].op = "generateUserSummary" /\ requests[c].pc = "create"
                /\ requests'[c] # requests[c])
             => /\ OneRowCreated
                /\ requests'[c].result = "OK"
                /\ requests'[c].returned = <<Len(summaries')>>
                /\ summaries'[Len(summaries')].userId =
                       Val(requests[c].options).userId]_vars

C15_Witness ==
    \E c \in Clients, id \in ExpenseIds :
        /\ requests[c].op = "generateUserSummary"
        /\ requests[c].result = "OK"
        /\ requests[c].returned = <<1>>
        /\ Len(summaries) = 1
        /\ summaries[1].userId = "e1"
        /\ summaries[1].expenseCount = 1
        /\ expenses[id].userId = Some("e1")
        /\ expenses[id].status = APPROVED
        /\ summaries[1].expenses[1].id # id

(* The exact sum of the snapshots' amounts, in thousandths. *)
ExactSum(snapshots) ==
    LET sum[k \in 0..Len(snapshots)] ==
            IF k = 0 THEN 0 ELSE sum[k - 1] + snapshots[k].amount
    IN  sum[Len(snapshots)]

(* Thousandths as cents, a half cent going up. *)
ToTheCent(thousandths) == (thousandths + 5) \div 10

(* C16: every Summary row has expenseCount equal to the number of its
   snapshots and totalAmount equal to the exact decimal sum of the snapshots'
   amounts, to the cent. *)
C16_TotalIsExactSum ==
    \A i \in 1..Len(summaries) :
        /\ summaries[i].expenseCount = Len(summaries[i].expenses)
        /\ summaries[i].totalAmount = ToTheCent(ExactSum(summaries[i].expenses))

(* C17: a Summary row, once created, keeps every field and is never
   removed, whatever runs afterwards: approve, reject, markPaid and
   bulkApprove on an expense leave the snapshots taken of it as captured. *)
C17_SummaryImmutable ==
    [][\A i \in 1..Len(summaries) :
          /\ Len(summaries') >= i
          /\ summaries'[i] = summaries[i]]_vars

C17_Witness ==
    \E i \in 1..Len(summaries), id \in ExpenseIds :
        /\ summaries[i].expenses[1].id = id
        /\ summaries[i].expenses[1].status = PENDING
        /\ summaries[i].expenses[1].amount = Val(expenses[id].amount)
        /\ expenses[id].status = REIMBURSED
        /\ requests["m1"].op = "pay"
        /\ requests["m1"].result = "OK"

(* The loop of generateAllPendingSummaries has just dealt with user u. *)
SweepHandled(c, u) ==
    /\ requests[c].op = "generateAllPendingSummaries"
    /\ requests[c].pc = "loop"
    /\ u \in requests[c].todo
    /\ requests'[c] # requests[c]
    /\ \/ u \notin requests'[c].todo
       \/ /\ requests'[c].pc = "loopCreate"
          /\ Val(requests'[c].draft).userId = u

(* The user has a PENDING expense. *)
HasPending(u) ==
    \E id \in ExpenseIds :
        /\ expenses[id].exists
        /\ expenses[id].userId = Some(u)
        /\ expenses[id].status = PENDING

(* C18: generateAllPendingSummaries lists the users who have a PENDING
   expense and no others; for each listed user who has a PENDING expense when
   the loop reaches them it creates a Summary, and each Summary it creates is
   returned, one per user. *)
C18_OnePerPendingUser ==
    [][\A c \in Clients :
          /\ (Started(c) /\ requests'[c].op = "generateAllPendingSummaries")
             => requests'[c].todo = {u \in Users : HasPending(u)}
          /\ \A u \in Users :
                (SweepHandled(c, u) /\ HasPending(u))
                => requests'[c].pc = "loopCreate"
          /\ (requests[c].op = "generateAllPendingSummaries"
                /\ requests[c].pc = "loopCreate" /\ requests'[c] # requests[c])
             => /\ OneRowCreated
                /\ requests'[c].returned =
                       Append(requests[c].returned, Len(summaries'))
                /\ \A k \in 1..Len(requests[c].returned) :
                       summaries[requests[c].returned[k]].userId
                           # summaries'[Len(summaries')].userId]_vars

(* Days back to the window start, by day of the week from Sunday. *)
CutoffDaysBack == <<2, 3, 4, 1, 2, 3, 1>>

(* The day, counted from the first, that holds clock reading t. *)
DayOf(t) == t \div TicksPerDay

(* C19: the default window start is midnight of the day d days before today,
   d being 4 on a Tuesday, 3 on a Friday, dayOfWeek + 2 on a Sunday or
   Monday, dayOfWeek - 2 on a Wednesday or Thursday and 1 on a Saturday; it
   is always a Tuesday or a Friday: on a Wednesday this week's Tuesday, on a
   Sunday the Friday before. *)
C19_DefaultWindowStart ==
    policy.fn = "getLastSummaryDate"
    => LET start == Val(policy.date)
           dayOfWeek == DayOf(now) % 7
       IN  /\ start % TicksPerDay = 0
           /\ DayOf(now) - DayOf(start) = CutoffDaysBack[dayOfWeek + 1]
           /\ DayOf(start) % 7 \in {2, 5}
           /\ dayOfWeek = 3 => DayOf(start) = DayOf(now) - 1
           /\ dayOfWeek = 0 => DayOf(start) = DayOf(now) - 2

C19_Witness ==
    /\ policy.fn = "getLastSummaryDate"
    /\ now = (7 + 3) * TicksPerDay + 1
    /\ policy.date = Some((7 + 2) * TicksPerDay)

(* The ids of the expenses snapshotted in a Summary row or draft. *)
SnapshotIds(summary) ==
    {summary.expenses[k].id : k \in 1..Len(summary.expenses)}

(* Row i is an earlier Summary of the same user and window start as the
   draft. *)
EarlierFor(i, draft) ==
    /\ summaries[i].userId = draft.userId
    /\ summaries[i].startDate = draft.startDate

(* C20: an earlier Summary does not stop a later one.  A generateUserSummary
   call for a user whose expenses snapshotted earlier are still PENDING in
   its window goes on to an insert whose snapshots include those expenses,
   and the insert adds a second row for the same user and window start. *)
C20_NoDeduplication ==
    [][\A c \in Clients :
          /\ (Started(c) /\ requests'[c].op = "generateUserSummary")
             => LET options == Val(requests'[c].options)
                    again == {id \in ExpenseIds :
                                /\ \E i \in 1..Len(summaries) :
                                      /\ summaries[i].userId = options.userId
                                      /\ id \in SnapshotIds(summaries[i])
                                /\ expenses[id].status = PENDING
                                /\ Val(expenses[id].createdAt) >= WindowStart(options)
                                /\ Val(expenses[id].createdAt) <= WindowEnd(options)}
                IN  again # {}
                    => /\ requests'[c].pc = "create"
                       /\ again \subseteq SnapshotIds(Val(requests'[c].draft))
          /\ (requests[c].op = "generateUserSummary" /\ requests[c].pc = "create"
                /\ requests'[c] # requests[c]
                /\ \E i \in 1..Len(summaries) :
                       EarlierFor(i, Val(requests[c].draft)))
             => /\ OneRowCreated
                /\ summaries'[Len(summaries')].userId = Val(requests[c].draft).userId
                /\ summaries'[Len(summaries')].startDate
                       = Val(requests[c].draft).startDate
                /\ SnapshotIds(summaries'[Len(summaries')])
                       = SnapshotIds(Val(requests[c].draft))]_vars

C20_Witness ==
    /\ Len(summaries) = 2
    /\ summaries[1].userId = summaries[2].userId
    /\ summaries[1].startDate = summaries[2].startDate
    /\ SnapshotIds(summaries[1]) = {1, 2}
    /\ SnapshotIds(summaries[2]) = {1, 2}
    /\ \A id \in {1, 2} : expenses[id].status = PENDING
    /\ requests["m2"].op = "generateUserSummary"
    /\ requests["m2"].returned = <<2>>

-----------------------------------------------------------------------------
(* Payment *)

(* C21: the write of a pay call that found the expense APPROVED leaves it
   REIMBURSED, with paidAmount the amount sent or, when none was sent, the
   expense's own amount, and paidDate the date sent or, when none was sent,
   the time of the write. *)
C21_MarkPaidStamps ==
    [][\A c \in Managers :
          (Wrote(c) /\ requests[c].op = "pay")
          => LET id == Val(requests[c].id)
                 sent == requests[c]
             IN  /\ requests'[c].result = "OK"
                 /\ expenses'[id].status = REIMBURSED
                 /\ expenses'[id].paidAmount =
                        (IF sent.paidAmount # None THEN sent.paidAmount
                         ELSE expenses[id].amount)
                 /\ expenses'[id].paidDate =
                        (IF sent.paidDate # None THEN Some(Val(sent.paidDate).t)
                         ELSE Some(now))]_vars

C21_Witness ==
    \E c \in Managers, id \in ExpenseIds :
        /\ Succeeded(c, "pay", id)
        /\ requests[c].paidAmount = None
        /\ requests[c].paidDate = Some(ValidDate(0))
        /\ now = 1
        /\ expenses[id].status = REIMBURSED
        /\ expenses[id].paidAmount = expenses[id].amount
        /\ expenses[id].paidDate = Some(0)
        /\ expenses[id].approvalDate = Some(1)

(* The answers of the checks made before the body is read. *)
GuardFailures == {"InvalidCsrf", "Unauthorized", "Forbidden"}

(* C22: a pay call that passes the manager guard with a paidAmount of zero
   or less, or with a paidDate that is not a date, is answered
   ValidationError whether or not the expense exists and whatever its status,
   and it writes nothing. *)
C22_PaymentValidatedFirst ==
    [][\A c \in Clients :
          (/\ Started(c)
           /\ requests'[c].op = "pay"
           /\ requests'[c].result \notin GuardFailures
           /\ \/ /\ requests'[c].paidAmount # None
                 /\ Val(requests'[c].paidAmount) <= 0
              \/ /\ requests'[c].paidDate # None
                 /\ ~Val(requests'[c].paidDate).valid)
          => /\ requests'[c].pc = "done"
             /\ requests'[c].result = "ValidationError"
             /\ expenses' = expenses]_vars

C22_Witness ==
    \E c \in Managers, id \in ExpenseIds :
        /\ requests[c].op = "pay"
        /\ requests[c].pc = "done"
        /\ requests[c].id = Some(id)
        /\ requests[c].paidAmount = Some(0)
        /\ requests[c].paidDate = Some(ValidDate(0))
        /\ requests[c].result = "ValidationError"
        /\ expenses[id].exists
        /\ expenses[id].status = APPROVED
        /\ expenses[id].paidAmount = None

-----------------------------------------------------------------------------
(* Edit and delete permissions *)

(* C23: canEdit and canDelete answer true exactly for the owner of a PENDING
   expense, whatever the role: a MANAGER who is not the owner gets false. *)
C23_EditDeleteOwnerPending ==
    policy.fn \in {"canEdit", "canDelete"}
    => /\ policy.out = (policy.isOwner /\ policy.current = PENDING)
       /\ (policy.role = MANAGER /\ ~policy.isOwner) => ~policy.out

C23_Witness ==
    /\ policy.fn = "canEdit"
    /\ policy.role = MANAGER
    /\ ~policy.isOwner
    /\ policy.current = PENDING
    /\ ~policy.out

-----------------------------------------------------------------------------
(* Listing summaries *)

(* In this step the findMany of c's listing answered; the rows it gave. *)
ListFound(c) ==
    /\ requests[c].op = "listSummaries"
    /\ requests[c].pc = "reads"
    /\ requests[c].returned = << >>
    /\ requests'[c] # requests[c]
    /\ requests'[c].total = requests[c].total

FoundRows(c) ==
    IF requests'[c].pc = "done" THEN requests'[c].returned
    ELSE Val(requests'[c].returned[1])

(* order lists every stored summary once, newest first. *)
NewestFirst(order) ==
    /\ Len(order) = Len(summaries)
    /\ \A i \in 1..Len(summaries) : \E k \in 1..Len(order) : order[k] = i
    /\ \A i, j \in 1..Len(order) :
          i < j => summaries[order[i]].createdAt >= summaries[order[j]].createdAt

(* C24: for page p >= 1 and limit l in 1..100, the rows the listing finds are
   those at positions (p-1)*l to p*l-1, counted from 0, of an order of all
   stored summaries by createdAt descending; the total it counts is the
   number of stored summaries; totalPages is the least whole number of pages
   of l rows that hold total rows. *)
C24_PageOfSummaries ==
    [][\A c \in Clients :
          /\ ListFound(c)
             => LET p == Val(requests[c].options).page
                    l == Val(requests[c].options).limit
                    rows == FoundRows(c)
                IN  /\ p >= 1 /\ l >= 1 /\ l <= 100
                    /\ \E order \in [1..Len(summaries) -> 1..Len(summaries)] :
                          /\ NewestFirst(order)
                          /\ \A k \in 1..Len(summaries) :
                                ((p - 1) * l <= k - 1 /\ k - 1 <= p * l - 1)
                                => /\ k - (p - 1) * l <= Len(rows)
                                   /\ rows[k - (p - 1) * l] = order[k]
                          /\ \A k \in 1..Len(rows) : (p - 1) * l + k <= Len(summaries)
          /\ (requests[c].op = "listSummaries" /\ requests[c].pc = "reads"
                /\ requests[c].total = None /\ requests'[c].total # None)
             => requests'[c].total = Some(Len(summaries))
          /\ (requests[c].op = "listSummaries" /\ requests[c].pc = "reads"
                /\ requests'[c].pc = "done")
             => LET l == Val(requests[c].options).limit
                    total == Val(requests'[c].total)
                    pages == Val(requests'[c].totalPages)
                IN  /\ requests'[c].result = "OK"
                    /\ pages * l >= total
                    /\ (pages - 1) * l < total]_vars

C24_Witness ==
    \E c \in Managers :
        /\ requests[c].op = "listSummaries"
        /\ requests[c].result = "OK"
        /\ Val(requests[c].options).page = 2
        /\ Val(requests[c].options).limit = 1
        /\ requests[c].returned = <<1>>
        /\ requests[c].total = Some(2)
        /\ requests[c].totalPages = Some(2)
        /\ Len(summaries) = 2
        /\ summaries[1].createdAt < summaries[2].createdAt

-----------------------------------------------------------------------------
(* The scheduled endpoint *)

(* The request came in through the cron endpoint. *)
CronRequest(req) ==
    /\ req.options # None
    /\ "cronSecret" \in DOMAIN Val(req.options)

(* C25: the cron endpoint calls generateAllPendingSummaries, with trigger
   type SCHEDULED, exactly when CRON_SECRET is set and the Authorization
   header is "Bearer " followed by the secret.  With no secret it answers
   500, with a missing or different header or one without the Bearer prefix
   401, and then no Summary is created.  The summaries of a call that passed
   are SCHEDULED. *)
C25_CronNeedsSecret ==
    [][\A c \in Clients :
          /\ (Started(c) /\ CronRequest(requests'[c]))
             => LET in == Val(requests'[c].options)
                    configured == in.cronSecret # None /\ Val(in.cronSecret) # << >>
                    header == in.authorization
                    matches ==
                        /\ header # None
                        /\ Len(Val(header)) = 2 + Len(Val(in.cronSecret))
                        /\ Val(header)[1] = "Bearer"
                        /\ Val(header)[2] = " "
                        /\ \A k \in 1..Len(Val(in.cronSecret)) :
                              Val(header)[2 + k] = Val(in.cronSecret)[k]
                IN  /\ summaries' = summaries
                    /\ IF ~configured
                       THEN /\ requests'[c].pc = "done"
                            /\ requests'[c].op = "cronSummaries"
                            /\ requests'[c].result = "ServerConfigurationError"
                       ELSE IF ~matches
                       THEN /\ requests'[c].pc = "done"
                            /\ requests'[c].op = "cronSummaries"
                            /\ requests'[c].result = "Unauthorized"
                       ELSE /\ requests'[c].op = "generateAllPendingSummaries"
                            /\ in.triggerType = SCHEDULED
                            /\ requests'[c].result \in {"none", "OK"}
          /\ (CronRequest(requests[c]) /\ Len(summaries') > Len(summaries)
                /\ requests'[c] # requests[c])
             => /\ requests[c].op = "generateAllPendingSummaries"
                /\ OneRowCreated
                /\ summaries'[Len(summaries')].triggerType = SCHEDULED]_vars

C25_Witness ==
    \E c \in Clients :
        /\ CronRequest(requests[c])
        /\ requests[c].op = "generateAllPendingSummaries"
        /\ requests[c].result = "OK"
        /\ Val(requests[c].options).authorization = Some(<<"Bearer", " ", "s">>)
        /\ Val(requests[c].options).cronSecret = Some(<<"s">>)
        /\ requests[c].returned = <<1>>
        /\ Len(summaries) = 1
        /\ summaries[1].triggerType = SCHEDULED

-----------------------------------------------------------------------------
(* CSRF *)

(* The requests that change state. *)
StateChangingOps ==
    {"createExpense", "approve", "reject", "pay", "bulkApprove",
     "postSummaries", "generateUserSummary", "generateAllPendingSummaries",
     "approveUser"}

(* C26: a state-changing request whose CSRF cookie or header is missing, or
   whose cookie and header differ, is refused at once and changes no expense,
   summary or user; a request is answered "Invalid CSRF token" only then, so
   the token check passes exactly when both are present and equal. *)
C26_CsrfRequired ==
    [][\A c \in Clients :
          (Started(c) /\ requests'[c].op \in StateChangingOps)
          => LET cookieToken == requests'[c].cookieToken
                 headerToken == requests'[c].headerToken
                 bad == \/ cookieToken = << >>
                        \/ headerToken = << >>
                        \/ cookieToken # headerToken
             IN  /\ bad => /\ requests'[c].pc = "done"
                           /\ requests'[c].result
                                  \in {"InvalidCsrf", "Unauthorized", "Forbidden"}
                           /\ expenses' = expenses
                           /\ summaries' = summaries
                           /\ isApproved' = isApproved
                 /\ (requests'[c].actor # None
                        /\ Val(requests'[c].actor) \in Managers)
                    => (bad <=> requests'[c].result = "InvalidCsrf")]_vars

C26_Witness ==
    \E c \in Managers, id \in ExpenseIds :
        /\ requests[c].op = "approve"
        /\ requests[c].pc = "done"
        /\ requests[c].cookieToken = <<1>>
        /\ requests[c].headerToken = <<2>>
        /\ requests[c].result = "InvalidCsrf"
        /\ expenses[id].exists
        /\ expenses[id].status = PENDING
        /\ ~isApproved["e1"]

-----------------------------------------------------------------------------
(* Reading expenses *)

(* In this step the findMany of c's expense listing answered. *)
ExpensesFound(c) ==
    /\ requests[c].op = "listExpenses"
    /\ requests[c].pc = "reads"
    /\ requests[c].returned = << >>
    /\ requests'[c] # requests[c]
    /\ requests'[c].total = requests[c].total

(* C27: a signed-in caller who fetches an existing expense by id gets it when
   they own it or are a MANAGER and Forbidden otherwise; every expense an
   EMPLOYEE's listing finds is the caller's own, with all=true as without,
   and with the default page it finds all of the caller's own. *)
C27_EmployeeReadsOwnOnly ==
    [][\A c \in Clients :
          /\ (Started(c) /\ requests'[c].op = "getExpense"
                /\ requests'[c].actor # None /\ requests'[c].id # None
                /\ expenses[Val(requests'[c].id)].exists)
             => LET u == Val(requests'[c].actor)
                    id == Val(requests'[c].id)
                IN  IF expenses[id].userId = Some(u) \/ RoleOf(u) = MANAGER
                    THEN /\ requests'[c].result = "OK"
                         /\ requests'[c].listed = {id}
                    ELSE /\ requests'[c].result = "Forbidden"
                         /\ requests'[c].listed = {}
          /\ (ExpensesFound(c) /\ RoleOf(Val(requests[c].actor)) = EMPLOYEE)
             => LET rows == FoundRows(c)
                    own == {id \in ExpenseIds :
                              /\ expenses[id].exists
                              /\ expenses[id].userId = requests[c].actor}
                IN  /\ \A k \in 1..Len(rows) : rows[k] \in own
                    /\ (Val(requests[c].options).page = 1
                          /\ Val(requests[c].options).limit >= NumExpenses
                          /\ Val(requests[c].options).where.status = None)
                       => {rows[k] : k \in 1..Len(rows)} = own]_vars

C27_Witness ==
    /\ requests["e1"].op = "listExpenses"
    /\ requests["e1"].result = "OK"
    /\ Val(requests["e1"].options).all
    /\ requests["e1"].returned = <<1>>
    /\ expenses[2].exists
    /\ expenses[2].userId = Some("m1")
    /\ requests["m1"].op = "getExpense"
    /\ requests["m1"].id = Some(1)
    /\ requests["m1"].result = "OK"

-----------------------------------------------------------------------------
(* What a Summary captures *)

(* The user's PENDING expenses created within [startDate, endDate]. *)
PendingCreatedWithin(userId, startDate, endDate) ==
    {id \in ExpenseIds :
        /\ expenses[id].exists
        /\ expenses[id].userId = Some(userId)
        /\ expenses[id].status = PENDING
        /\ Val(expenses[id].createdAt) >= startDate
        /\ Val(expenses[id].createdAt) <= endDate}

(* C28: a generateUserSummary call with a start and an end date snapshots,
   once each, exactly the user's expenses that are PENDING at its read and
   were created within [start, end], whatever their incurred dates; the
   snapshots come with the later incurred date first, and the row inserted
   holds those snapshots. *)
C28_SnapshotsAreThePendingInRange ==
    [][\A c \in Clients :
          /\ (Started(c) /\ requests'[c].op = "generateUserSummary"
                /\ Val(requests'[c].options).userId \in Users
                /\ Val(requests'[c].options).startDate # None
                /\ Val(requests'[c].options).endDate # None)
             => LET options == Val(requests'[c].options)
                    selected == PendingCreatedWithin(options.userId,
                                    Val(options.startDate), Val(options.endDate))
                IN  IF selected = {}
                    THEN requests'[c].result = "null"
                    ELSE LET snapshots == Val(requests'[c].draft).expenses
                         IN  /\ requests'[c].pc = "create"
                             /\ Len(snapshots) = Cardinality(selected)
                             /\ {snapshots[k].id : k \in 1..Len(snapshots)} = selected
                             /\ \A k \in 1..Len(snapshots) :
                                    snapshots[k].date = Val(expenses[snapshots[k].id].date)
                             /\ \A i, j \in 1..Len(snapshots) :
                                    i < j => snapshots[i].date >= snapshots[j].date
          /\ (requests[c].op = "generateUserSummary" /\ requests[c].pc = "create"
                /\ requests'[c] # requests[c])
             => summaries'[Len(summaries')].expenses =
                    Val(requests[c].draft).expenses]_vars

C28_Witness ==
    /\ Len(summaries) = 1
    /\ summaries[1].userId = "e1"
    /\ summaries[1].startDate = 2
    /\ summaries[1].endDate = 3
    /\ Len(summaries[1].expenses) = 2
    /\ summaries[1].expenses[1].id = 2
    /\ summaries[1].expenses[2].id = 1
    /\ expenses[1].createdAt = Some(2)
    /\ expenses[1].date = Some(0)
    /\ expenses[2].createdAt = Some(3)
    /\ expenses[2].date = Some(3)

-----------------------------------------------------------------------------
(* Generation leaves expenses and users alone *)

GenerateOps == {"generateUserSummary", "generateAllPendingSummaries"}

(* Some Summary row holds a snapshot of expense id. *)
Captured(id) ==
    \E i \in 1..Len(summaries) : id \in SnapshotIds(summaries[i])

(* C29: no step of generateUserSummary or generateAllPendingSummaries changes
   an expense or a user.  A captured expense that is still PENDING is
   approved, rejected and bulk-approved like any other: a manager's valid
   call goes on to its write, and the write stamps it and answers success. *)
C29_GenerationChangesNoExpense ==
    [][\A c \in Clients :
          /\ (requests'[c] # requests[c] /\ requests'[c].op \in GenerateOps)
             => /\ expenses' = expenses
                /\ isApproved' = isApproved
          /\ \A id \in ExpenseIds :
                (Captured(id) /\ expenses[id].exists /\ expenses[id].status = PENDING)
                => /\ (Started(c) /\ requests'[c].op \in {"approve", "reject"}
                         /\ requests'[c].id = Some(id))
                      => requests'[c].pc = "update"
                   /\ (Started(c) /\ requests'[c].op = "bulkApprove"
                         /\ requests'[c].ids = {id})
                      => requests'[c].pc = "update"
                   /\ (Wrote(c) /\ requests[c].op = "approve"
                         /\ requests[c].id = Some(id))
                      => /\ requests'[c].result = "OK"
                         /\ expenses'[id].status = APPROVED
                         /\ expenses'[id].approverId = requests[c].actor
                   /\ (Wrote(c) /\ requests[c].op = "reject"
                         /\ requests[c].id = Some(id))
                      => /\ requests'[c].result = "OK"
                         /\ expenses'[id].status = REJECTED
                         /\ expenses'[id].rejectionReason = requests[c].reason
                   /\ (Wrote(c) /\ requests[c].op = "bulkApprove"
                         /\ requests[c].ids = {id})
                      => /\ requests'[c].result = "OK"
                         /\ requests'[c].approved = Some(1)
                         /\ expenses'[id].status = APPROVED]_vars

C29_Witness ==
    /\ Len(summaries) = 2
    /\ summaries[1].triggerType = MANUAL
    /\ summaries[2].triggerType = SCHEDULED
    /\ Captured(1)
    /\ expenses[1].status = APPROVED
    /\ requests["m1"].op = "bulkApprove"
    /\ requests["m1"].result = "OK"
    /\ requests["m1"].approved = Some(1)

-----------------------------------------------------------------------------
(* Bulk approval of missing and settled expenses *)

(* C30: a bulk approval that passes the guard and the size checks and names
   both an id with no expense and an expense that is not PENDING answers
   NotFound, naming the missing ids, and changes no expense. *)
C30_MissingBeforeNotPending ==
    [][\A c \in Clients :
          (/\ Started(c)
           /\ requests'[c].op = "bulkApprove"
           /\ ManagerGuard(requests'[c].cookieToken, requests'[c].headerToken,
                           requests'[c].actor) = "pass"
           /\ requests'[c].len >= 1
           /\ requests'[c].len <= MaxBulkItems
           /\ \E id \in requests'[c].ids : ~expenses[id].exists
           /\ \E id \in requests'[c].ids :
                 expenses[id].exists /\ expenses[id].status # PENDING)
          => /\ requests'[c].pc = "done"
             /\ requests'[c].result = "NotFound"
             /\ requests'[c].listed =
                    {id \in requests'[c].ids : ~expenses[id].exists}
             /\ expenses' = expenses]_vars

C30_Witness ==
    \E c \in Managers :
        /\ requests[c].op = "bulkApprove"
        /\ requests[c].ids = {1, 2}
        /\ requests[c].result = "NotFound"
        /\ requests[c].listed = {2}
        /\ expenses[1].exists
        /\ expenses[1].status = REJECTED
        /\ ~expenses[2].exists

-----------------------------------------------------------------------------
(* Two bulk approvals racing *)

(* c's bulk approval has made its write and answered. *)
BulkDone(c) ==
    /\ requests[c].op = "bulkApprove"
    /\ requests[c].pc = "done"
    /\ requests[c].result = "OK"

(* The expenses of c's list that carry c's approval. *)
CountedBy(c) ==
    {id \in requests[c].ids :
        /\ expenses[id].status = APPROVED
        /\ expenses[id].approverId = Some(c)}

(* C31: of two bulk approvals with overlapping lists that both passed
   validation and wrote, each returns the number of expenses of its list that
   carry its actor as approver, no expense is counted by both, and the two
   counts add up to the number of expenses the two calls approved; a write
   changes only PENDING expenses of its list. *)
C31_BulkRaceSplitsTheList ==
    /\ [](\A c, d \in Managers :
            (c # d /\ BulkDone(c) /\ BulkDone(d)
               /\ requests[c].ids \cap requests[d].ids # {})
            => /\ requests[c].approved = Some(Cardinality(CountedBy(c)))
               /\ requests[d].approved = Some(Cardinality(CountedBy(d)))
               /\ CountedBy(c) \cap CountedBy(d) = {}
               /\ Val(requests[c].approved) + Val(requests[d].approved)
                      = Cardinality(CountedBy(c) \cup CountedBy(d)))
    /\ [][\A c \in Managers :
            (Wrote(c) /\ requests[c].op = "bulkApprove")
            => \A id \in ExpenseIds :
                  expenses'[id] # expenses[id]
                  => /\ id \in requests[c].ids
                     /\ expenses[id].status = PENDING
                     /\ expenses'[id].status = APPROVED
                     /\ expenses'[id].approverId = Some(c)]_vars

C31_Witness ==
    /\ BulkDone("m1")
    /\ BulkDone("m2")
    /\ requests["m1"].ids = {1, 2}
    /\ requests["m2"].ids = {2}
    /\ requests["m1"].approved = Some(1)
    /\ requests["m2"].approved = Some(1)
    /\ expenses[1].approverId = Some("m1")
    /\ expenses[2].approverId = Some("m2")

-----------------------------------------------------------------------------
(* Reimbursed only after approved *)

(* C32: an expense becomes REIMBURSED only by the write of a pay call, and a
   pay call reaches its write only from a lookup that found the expense
   APPROVED; so whatever approve, reject, pay and bulkApprove calls
   interleave, a REIMBURSED expense was APPROVED at an earlier point. *)
C32_ReimbursedWasApproved ==
    [][/\ \A id \in ExpenseIds :
             (expenses'[id].status = REIMBURSED /\ expenses[id].status # REIMBURSED)
             => \E c \in Clients :
                   /\ Wrote(c)
                   /\ requests[c].op = "pay"
                   /\ requests[c].id = Some(id)
       /\ \A c \in Clients :
             (/\ requests'[c].op = "pay"
              /\ requests'[c].pc = "update"
              /\ requests'[c] # requests[c])
             => /\ Free(c)
                /\ expenses[Val(requests'[c].id)].exists
                /\ expenses[Val(requests'[c].id)].status = APPROVED]_vars

C32_Witness ==
    \E c \in Managers :
        /\ Succeeded(c, "pay", 1)
        /\ expenses[1].status = REIMBURSED
        /\ expenses[1].rejectionReason # None
        /\ expenses[1].approverId # Some(c)

-----------------------------------------------------------------------------
(* What generateAllPendingSummaries returns *)

(* c's generateAllPendingSummaries call takes a step. *)
SweepStep(c, pc) ==
    /\ requests[c].op = "generateAllPendingSummaries"
    /\ requests[c].pc = pc
    /\ requests'[c] # requests[c]

(* C33: the list a generateAllPendingSummaries call has collected names rows
   of the Summary table, no row twice and no user twice.  A pass of its loop
   whose generateUserSummary returns null takes the user off the list, adds
   no row and no entry; a pass that inserts adds exactly one row, for a user
   of the list, and its entry, and takes that user off the list. *)
C33_OneEntryPerRowCreated ==
    /\ [](\A c \in Clients :
            requests[c].op = "generateAllPendingSummaries"
            => LET returned == requests[c].returned
               IN  /\ \A k \in 1..Len(returned) : returned[k] \in 1..Len(summaries)
                   /\ \A j, k \in 1..Len(returned) :
                         j # k => /\ returned[j] # returned[k]
                                  /\ summaries[returned[j]].userId
                                         # summaries[returned[k]].userId)
    /\ [][\A c \in Clients :
            /\ SweepStep(c, "loop")
               => /\ summaries' = summaries
                  /\ requests'[c].returned = requests[c].returned
                  /\ IF requests'[c].pc = "loopCreate"
                     THEN /\ requests'[c].todo = requests[c].todo
                          /\ Val(requests'[c].draft).userId \in requests[c].todo
                     ELSE \E u \in requests[c].todo :
                             /\ requests'[c].todo = requests[c].todo \ {u}
                             /\ ~HasPendingWithin(u, getLastSummaryDate(now), now)
            /\ SweepStep(c, "loopCreate")
               => /\ OneRowCreated
                  /\ summaries'[Len(summaries')].userId = Val(requests[c].draft).userId
                  /\ requests'[c].returned =
                         Append(requests[c].returned, Len(summaries'))
                  /\ requests'[c].todo =
                         requests[c].todo \ {Val(requests[c].draft).userId}]_vars

C33_Witness ==
    /\ requests["m2"].op = "generateAllPendingSummaries"
    /\ requests["m2"].pc = "done"
    /\ requests["m2"].returned = <<1>>
    /\ Len(summaries) = 1
    /\ summaries[1].userId = "m1"
    /\ summaries[1].createdAt = SummaryLastTime
    /\ expenses[1].userId = Some("e1")
    /\ expenses[1].status = PENDING
    /\ expenses[1].createdAt = Some(SummaryFirstTime)

-----------------------------------------------------------------------------
(* What a payment leaves alone *)

PaidFields == {"status", "paidDate", "paidAmount"}

(* C34: the write of a pay call changes, of the expense it pays, only
   status, paidDate and paidAmount, and changes no other expense: approverId,
   approvalDate, rejectionReason, amount, owner, incurred date and createdAt
   stay as they were. *)
C34_PayKeepsApprovalStamps ==
    [][\A c \in Clients :
          (Wrote(c) /\ requests[c].op = "pay")
          => \A id \in ExpenseIds :
                IF requests[c].id = Some(id)
                THEN \A f \in DOMAIN expenses[id] \ PaidFields :
                        expenses'[id][f] = expenses[id][f]
                ELSE expenses'[id] = expenses[id]]_vars

C34_Witness ==
    /\ Succeeded("m2", "pay", 1)
    /\ expenses[1].status = REIMBURSED
    /\ expenses[1].approverId = Some("m1")
    /\ expenses[1].approvalDate # expenses[1].paidDate
    /\ expenses[1].rejectionReason = None

-----------------------------------------------------------------------------
(* What a snapshot records *)

(* Every snapshot of the list records PENDING and an expense of the user. *)
PendingSnapshotsOf(snapshots, userId) ==
    \A k \in 1..Len(snapshots) :
        /\ snapshots[k].status = PENDING
        /\ snapshots[k].id \in ExpenseIds
        /\ expenses[snapshots[k].id].exists
        /\ expenses[snapshots[k].id].userId = Some(userId)

(* C35: every snapshot of every Summary row, and of every row about to be
   inserted, records status PENDING and is of an expense owned by the
   Summary's user, whatever approvals and rejections run before, during and
   after the generation. *)
C35_SnapshotsPendingAndOwned ==
    /\ \A i \in 1..Len(summaries) :
          PendingSnapshotsOf(summaries[i].expenses, summaries[i].userId)
    /\ \A c \in Clients :
          requests[c].draft # None
          => PendingSnapshotsOf(Val(requests[c].draft).expenses,
                                Val(requests[c].draft).userId)

C35_Witness ==
    /\ Len(summaries) = 2
    /\ summaries[1].userId = "e1"
    /\ summaries[1].expenses[1].id = 1
    /\ summaries[1].expenses[1].status = PENDING
    /\ expenses[1].status = REJECTED
    /\ summaries[2].userId = "m1"
    /\ summaries[2].expenses[1].id = 2
    /\ expenses[2].userId = Some("m1")
    /\ expenses[2].status = APPROVED

-----------------------------------------------------------------------------
(* The default window is never empty *)

(* Day d is a Tuesday or a Friday. *)
IsSummaryDay(d) == d % 7 \in {2, 5}

(* C36: on every day of the week the default window start is midnight of the
   latest Tuesday or Friday before today: a Tuesday or a Friday, one to four
   days back, never today, with no Tuesday or Friday between it and today; so
   the start is before now and the window [start, now] is not empty. *)
C36_LatestSummaryDayBeforeToday ==
    policy.fn = "getLastSummaryDate"
    => LET start == Val(policy.date)
           back == DayOf(now) - DayOf(start)
       IN  /\ IsSummaryDay(DayOf(start))
           /\ start = DayOf(start) * TicksPerDay
           /\ back >= 1
           /\ back <= 4
           /\ \A d \in (DayOf(start) + 1)..(DayOf(now) - 1) : ~IsSummaryDay(d)
           /\ start < now

C36_Witness ==
    /\ policy.fn = "getLastSummaryDate"
    /\ now = (7 + 2) * TicksPerDay
    /\ policy.date = Some(5 * TicksPerDay)

====
